---- MODULE Spec2Model ----
(***************************************************************************)
(* KetoCounter: the multi-modal food-logging pipeline.                     *)
(*                                                                         *)
(* The repository holds several revisions of each analysis route.  Every   *)
(* revision is modelled as its own route identifier:                       *)
(*   TextA    src/src/app/api/analyze-text/route.ts                        *)
(*   TextB    src/unnamed/part_002, lines 1-168                            *)
(*   PhotoV1  src/unnamed/part_003                                         *)
(*   PhotoA   src/src/app/api/analyze-photo/route.ts                       *)
(*   PhotoB   src/unnamed/part_004, lines 1-165                            *)
(*   PhotoM   src/unnamed/part_002, lines 170-277 (model x attempt loop)   *)
(*   VoiceA   src/unnamed/part_004, lines 167-242                          *)
(*   VoiceB   src/unnamed/part_004, lines 244-338                          *)
(*                                                                         *)
(* JavaScript numbers are modelled as integers (exact arithmetic); the     *)
(* values undefined, NaN and non-numeric strings are kept apart because    *)
(* the code's `Number(x) || d` idiom treats them differently from numbers. *)
(***************************************************************************)
EXTENDS Integers, Sequences, FiniteSets, TLC

VARIABLES
    \* --- reply processing (JSON.parse result -> route response) ---
    rroute,      \* the route revision processing the reply
    rreply,      \* the value JSON.parse returned for the model's reply
    rresp,       \* the response the route returned for it (NoResp before)
    rpc,         \* "parsed" | "done" | "retry"
    \* --- one invocation of a route (POST) ---
    route,       \* the route revision invoked
    envKey,      \* process.env.GROQ_API_KEY ("" when unset)
    hdrKey,      \* the X-Groq-API-Key request header ("" when absent)
    payload,     \* the request body's description / imageBase64 / audioBase64
    pc,          \* "idle" | "awaiting" (a fetch is in flight) | "done"
    modelIdx,    \* PhotoM: index into VISION_MODELS of the model being tried
    attempt,     \* PhotoM: attempt number for that model
    lastError,   \* PhotoM: lastError ("" is null)
    timer,       \* the armed abort timer's delay in ms (0: no timer armed)
    hang,        \* TRUE when the provider never answers the call in flight
    calls,       \* the provider calls made so far, with their outcomes
    lastReply,   \* the parsed body of the latest 2xx provider response
    resp,        \* the response returned to the caller (NoResp before)
    \* --- response extraction (model text -> JSON.parse result) ---
    xroute,      \* the route revision extracting
    parts,       \* what the model's text is made of: prose, fence, object
    content,     \* data.choices[0].message.content, as a token sequence
    stripped,    \* the text after the code-fence markers were removed
    jsonMatch,   \* the span the "foods" pattern matched in it (NoMatch: null)
    result,      \* what JSON.parse returned or threw
    xpc,         \* "replied" | "extracted"
    \* --- image normalization (decoded image -> canvas size) ---
    resizer,     \* the resize routine applied
    img,         \* the decoded image's width and height
    canvas,      \* the canvas' width and height (0 x 0 before drawing)
    ipc,         \* "loaded" | "drawn"
    \* --- camera capture (CameraCapture component) ---
    camRev,      \* the revision of the component
    camMounted,  \* the component is mounted
    effectGen,   \* the run of the effect whose closure flag is still true
    requests,    \* getUserMedia calls not settled yet
    tracks,      \* per acquired stream, in order: "live" | "stopped"
    streamRef,   \* streamRef.current: an index into tracks (0 is null)
    cameraReady, \* cameraReady (compact revision)
    requested,   \* the number of getUserMedia calls made so far
    \* --- voice capture (VoiceInput component) ---
    voiceOpen,        \* the component is mounted
    micPending,       \* getUserMedia({ audio }) calls not settled yet
    micTracks,        \* per acquired stream, in order: "live" | "stopped"
    mediaRecorderRef, \* mediaRecorderRef.current: the stream it records (0 is null)
    isRecording,      \* isRecording
    audioBlob,        \* audioBlob is not null
    hasPermission,    \* hasPermission: "null" | "true" | "false"
    \* --- the page's analysis handlers ---
    apiKey,      \* apiKey is not empty
    modal,       \* the capture modal shown: "none" | "camera" | "voice" | "text"
    isAnalyzing, \* isAnalyzing
    reads,       \* FileReader reads of sendAudio not loaded yet
    inFlight,    \* the handler invocations in flight: id -> what they await
    started,     \* the number of handler invocations started so far
    \* --- the JPEG quality loop of the resize routines ---
    qresizer,    \* the routine
    quality,     \* quality, a double
    urlSizeKB,   \* sizeKB: the size of the last encoding
    encoded,     \* the encodings made, in order: quality and size
    resolved,    \* the encoding passed to resolve: an index (0: none yet)
    qpc,         \* "drawn" | "loop" | "resolved"
    \* --- handleVoiceTranscript: transcription, then text analysis ---
    flow,        \* "idle" | "transcribing" | "analyzing" | "finished"
    textCalls,   \* the number of fetch('/api/analyze-text') calls made
    alertMsg,    \* the message of alert(), "" when none was shown
    \* --- image upload (handleFileUpload and processImage) ---
    uploader,      \* the revision of the upload code
    file,          \* the file chosen: its name's ending and declared type
    steps,         \* what processImage has done so far, in order
    capturedImage, \* capturedImage is not null
    shown,         \* the failure shown: "none" | "heicError" | "generic"
    upc,           \* "selected" | "decodingOriginal" | "converting" |
                   \* "decodingConverted" | "done"
    \* --- the page's meal register (page.tsx:138-392) ---
    meals,          \* the meals state: the list of the current day
    analysisResult, \* the analysisResult state: NoResult or the shown result
    showResult,     \* the showResult state
    editingMeal,    \* the editingMeal state: NoMeal or a copy of a meal
    showEditModal,  \* the showEditModal state
    currentDate,    \* the currentDate state: local day and hour of day
    storage,        \* localStorage: the meal list stored under each key
    loading,        \* the loading state: the mount effect has not run yet
    zone,           \* the time zone of the browser
    runs,           \* history: the number of analysis results shown so far
    converted,      \* history: the items turned into meals, as <<run, item>>,
                    \* in the order of their conversion
    lastClick,      \* history: the last operation: "none" | "mount" |
                    \* "addOne" | "addAll" | "dismiss" | "other"
    \* --- the credential and the daily targets (page.tsx:89-109, 376-384,
    \*     641-713) ---
    apiKeyText,      \* the apiKey state: the text of the credential
    settings,        \* the settings state: the daily targets
    storedApiKey,    \* localStorage: the persisted credential
    storedSettings,  \* localStorage: the persisted daily targets
    showApiKeySetup, \* the showApiKeySetup state
    showSettings,    \* the showSettings state
    atOpen,          \* history: apiKey and settings when the modal was opened
    cancelled        \* history: the last operation was a Cancel

replyVars == <<rroute, rreply, rresp, rpc>>

routeVars ==
    <<route, envKey, hdrKey, payload, pc, modelIdx, attempt, lastError,
      timer, hang, calls, lastReply, resp>>

extractVars == <<xroute, parts, content, stripped, jsonMatch, result, xpc>>

imageVars == <<resizer, img, canvas, ipc>>

cameraVars ==
    <<camRev, camMounted, effectGen, requests, tracks, streamRef, cameraReady,
      requested>>

voiceVars ==
    <<voiceOpen, micPending, micTracks, mediaRecorderRef, isRecording,
      audioBlob, hasPermission>>

analyzeVars == <<apiKey, modal, isAnalyzing, reads, inFlight, started>>

qualityVars == <<qresizer, quality, urlSizeKB, encoded, resolved, qpc>>

flowVars == <<flow, textCalls, alertMsg>>

uploadVars == <<uploader, file, steps, capturedImage, shown, upc>>

pageVars ==
    <<meals, analysisResult, showResult, editingMeal, showEditModal,
      currentDate, storage, loading, zone, runs, converted, lastClick>>

settingsVars ==
    <<apiKeyText, settings, storedApiKey, storedSettings, showApiKeySetup,
      showSettings, atOpen, cancelled>>

\* the variables of the page and its capture components
uiVars ==
    <<cameraVars, voiceVars, analyzeVars, qualityVars,
      flowVars,
      uploadVars,
      pageVars,
      settingsVars>>

vars == <<replyVars, routeVars, extractVars, imageVars, uiVars>>

\* the camera variables, at rest
CameraIdle ==
    /\ camRev = "CameraA"
    /\ camMounted = FALSE
    /\ effectGen = 0
    /\ requests = {}
    /\ tracks = <<>>
    /\ streamRef = 0
    /\ cameraReady = FALSE
    /\ requested = 0

\* the voice variables, at rest
VoiceIdle ==
    /\ voiceOpen = FALSE
    /\ micPending = 0
    /\ micTracks = <<>>
    /\ mediaRecorderRef = 0
    /\ isRecording = FALSE
    /\ audioBlob = FALSE
    /\ hasPermission = "null"

\* the page's variables, at rest
AnalyzeIdle ==
    /\ apiKey = FALSE
    /\ modal = "none"
    /\ isAnalyzing = FALSE
    /\ reads = 0
    /\ inFlight = <<>>
    /\ started = 0

\* the quality loop's variables, at rest
QualityIdle ==
    /\ qresizer = "processBlob"
    /\ quality = [k |-> 0, r |-> 0]
    /\ urlSizeKB = 0
    /\ encoded = <<>>
    /\ resolved = 0
    /\ qpc = "drawn"

\* the voice flow's variables, at rest
FlowIdle ==
    /\ flow = "idle"
    /\ textCalls = 0
    /\ alertMsg = ""

\* the upload variables, at rest
UploadIdle ==
    /\ uploader = "UploadA"
    /\ file = [ending |-> "", type |-> ""]
    /\ steps = <<>>
    /\ capturedImage = FALSE
    /\ shown = "none"
    /\ upc = "done"

\* the page is not mounted
PageIdle ==
    /\ meals = <<>>
    /\ analysisResult = [t |-> "null"]
    /\ showResult = FALSE
    /\ editingMeal = [t |-> "null"]
    /\ showEditModal = FALSE
    /\ currentDate = [day |-> 0, hour |-> 0]
    /\ storage = <<>>
    /\ loading = TRUE
    /\ zone = [std |-> 0, dst |-> FALSE]
    /\ runs = 0
    /\ converted = <<>>
    /\ lastClick = "none"

\* no modal of the page is open
SettingsIdle ==
    /\ apiKeyText = ""
    /\ settings = 0
    /\ storedApiKey = ""
    /\ storedSettings = 0
    /\ showApiKeySetup = FALSE
    /\ showSettings = FALSE
    /\ atOpen = <<"", 0>>
    /\ cancelled = FALSE

UiIdle ==
    /\ CameraIdle
    /\ VoiceIdle
    /\ AnalyzeIdle
    /\ QualityIdle
    /\ FlowIdle
    /\ UploadIdle
    /\ PageIdle
    /\ SettingsIdle

\* the extraction variables, at rest
ExtractIdle ==
    /\ xroute = "TextA"
    /\ parts = <<>>
    /\ content = <<>>
    /\ stripped = <<>>
    /\ jsonMatch = [from |-> 0, to |-> 0]
    /\ result = [t |-> "undefined"]
    /\ xpc = "off"

\* the image variables, at rest
ImageIdle ==
    /\ resizer = "processBlob"
    /\ img = [width |-> 0, height |-> 0]
    /\ canvas = [width |-> 0, height |-> 0]
    /\ ipc = "off"

----------------------------------------------------------------------------
(* Bounds of the inputs.                                                   *)

\* raw numeric fields of a model reply range over -MaxNum..MaxNum
MaxNum == 2
\* a model reply lists at most MaxFoods food items
MaxFoods == 2

----------------------------------------------------------------------------
(* JavaScript values.                                                      *)

Undef == [t |-> "undefined", n |-> 0]
NaN == [t |-> "NaN", n |-> 0]
Num(n) == [t |-> "number", n |-> n]
\* a non-empty, non-numeric string; n tells the strings apart
Str(id) == [t |-> "string", n |-> id]

\* the string literals of the routes
Alimento == Str(0)
UnitG == Str(1)
\* strings a model reply may carry (a food name, a unit, a stray word)
ModelStr == Str(2)
\* the result of String(x) on a non-string, and of `+` with a string operand
Stringified == Str(3)
\* a whitespace-only string (truthy, but empty once trimmed)
BlankStr == Str(4)
\* the empty string (falsy)
EmptyStr == [t |-> "emptystring", n |-> 0]

\* s.trim()
Trim(v) == IF v = BlankStr THEN EmptyStr ELSE v

IsNumber(v) == v.t = "number"

\* JavaScript truthiness: undefined, NaN, 0 are falsy; objects, arrays and
\* non-empty strings are truthy
Truthy(v) ==
    \/ v.t \in {"string", "object", "array"}
    \/ v.t = "number" /\ v.n # 0

\* a || b
Or(a, b) == IF Truthy(a) THEN a ELSE b

\* Number(x): undefined and non-numeric strings give NaN
Number(v) == IF v.t = "number" THEN v ELSE NaN

\* String(x)
String(v) == IF v.t = "string" THEN v ELSE Stringified

\* a - b on numbers (NaN propagates)
Minus(a, b) ==
    IF IsNumber(a) /\ IsNumber(b) THEN Num(a.n - b.n) ELSE NaN

\* a + b: string concatenation as soon as one operand is a string
Plus(a, b) ==
    IF a.t = "string" \/ b.t = "string" THEN Stringified
    ELSE IF IsNumber(a) /\ IsNumber(b) THEN Num(a.n + b.n)
    ELSE NaN

\* Math.max(a, b)
MathMax(a, b) ==
    IF IsNumber(a) /\ IsNumber(b)
    THEN (IF a.n >= b.n THEN a ELSE b)
    ELSE NaN

\* Array.isArray(x)
IsArray(v) == v.t = "array"

\* x.length: defined for arrays and strings only
Length(v) ==
    IF v.t = "array" THEN Num(Len(v.items))
    ELSE IF v.t = "string" THEN Num(3)
    ELSE Undef

Array(items) == [t |-> "array", items |-> items]

----------------------------------------------------------------------------
(* The routes.                                                             *)

TextRoutes == {"TextA", "TextB"}
PhotoRoutes == {"PhotoV1", "PhotoA", "PhotoB", "PhotoM"}
VoiceRoutes == {"VoiceA", "VoiceB"}
AnalysisRoutes == TextRoutes \cup PhotoRoutes
Routes == AnalysisRoutes \cup VoiceRoutes

----------------------------------------------------------------------------
(* Model replies: what JSON.parse returns for the located JSON text.       *)

\* raw numeric fields: absent, a non-numeric string, or a number
RawNums == {Undef, ModelStr} \cup {Num(n) : n \in (0 - MaxNum)..MaxNum}
\* a netCarbs the model computed itself (absent, or a number of its own)
RawNet == {Undef, Num(MaxNum)}
RawOther == {Undef, Num(0 - 1), Num(MaxNum)}
RawServing == {Undef, Num(0), Num(MaxNum)}
RawText == {Undef, ModelStr}

RawItems ==
    [name : RawText, calories : RawOther, carbs : RawNums, protein : {Num(1)},
     fat : {Undef}, fiber : RawNums, netCarbs : RawNet,
     servingSize : RawServing, unit : {Undef}]

\* the format example of the system prompt (part_004:65)
HuevoFrito ==
    [name |-> ModelStr, calories |-> Num(2), carbs |-> Num(1),
     protein |-> Num(1), fat |-> Num(1), fiber |-> Num(0),
     netCarbs |-> Num(1), servingSize |-> Num(1), unit |-> ModelStr]
Tocino ==
    [name |-> ModelStr, calories |-> Num(1), carbs |-> Num(2),
     protein |-> Num(2), fat |-> Num(2), fiber |-> Num(1),
     netCarbs |-> Undef, servingSize |-> Undef, unit |-> Undef]
FollowItems == {HuevoFrito, Tocino}

RECURSIVE SeqsUpTo(_, _)
SeqsUpTo(S, n) ==
    IF n = 0 THEN {<<>>}
    ELSE LET shorter == SeqsUpTo(S, n - 1)
         IN  shorter \cup {Append(q, x) : q \in {r \in shorter : Len(r) = n - 1}, x \in S}

\* non-empty food lists: any first item, then items of the prompt's example
FoodLists ==
    {<<a>> \o tail : a \in RawItems, tail \in SeqsUpTo(FollowItems, MaxFoods - 1)}

\* a totalNutrition object the model computed itself
ModelTotals ==
    [t |-> "object", calories |-> Num(9), carbs |-> Num(9), protein |-> Num(9),
     fat |-> Num(9), fiber |-> Num(9), netCarbs |-> Num(9)]

EmptyObject == [t |-> "object"]

\* the foods value of a parsed reply: absent, not a list (a string, an
\* object), an empty list, or a list of items
FoodsValues ==
    {Undef, ModelStr, EmptyObject, Array(<<>>)} \cup {Array(l) : l \in FoodLists}

\* JSON.parse throws on text that is no JSON
SyntaxError == [t |-> "SyntaxError"]
\* JSON.parse("null")
Null == [t |-> "null"]

ObjectReplies ==
    [t : {"object"}, foods : FoodsValues, totalNutrition : {Undef, ModelTotals}]

ParsedReplies == {SyntaxError, Null} \cup ObjectReplies

----------------------------------------------------------------------------
(* Per-item normalization.                                                 *)

\* part_002:117-127 (TextB); analyze-photo/route.ts:115-125 (PhotoA);
\* part_004:126-136 (PhotoB)
NormalizeItemText(f) ==
    [name |-> Or(f.name, Alimento),
     calories |-> Or(Number(f.calories), Num(0)),
     carbs |-> Or(Number(f.carbs), Num(0)),
     protein |-> Or(Number(f.protein), Num(0)),
     fat |-> Or(Number(f.fat), Num(0)),
     fiber |-> Or(Number(f.fiber), Num(0)),
     netCarbs |-> MathMax(Num(0), Minus(Or(Number(f.carbs), Num(0)),
                                        Or(Number(f.fiber), Num(0)))),
     servingSize |-> Or(Number(f.servingSize), Num(100)),
     unit |-> Or(f.unit, UnitG)]

\* part_002:250-254 (PhotoM): every field clamped, netCarbs from the
\* unclamped carbs and fiber
NormalizeItemMulti(f) ==
    [name |-> String(Or(f.name, Alimento)),
     calories |-> MathMax(Num(0), Or(Number(f.calories), Num(0))),
     carbs |-> MathMax(Num(0), Or(Number(f.carbs), Num(0))),
     protein |-> MathMax(Num(0), Or(Number(f.protein), Num(0))),
     fat |-> MathMax(Num(0), Or(Number(f.fat), Num(0))),
     fiber |-> MathMax(Num(0), Or(Number(f.fiber), Num(0))),
     netCarbs |-> MathMax(Num(0), Minus(Or(Number(f.carbs), Num(0)),
                                        Or(Number(f.fiber), Num(0)))),
     servingSize |-> MathMax(Num(1), Or(Number(f.servingSize), Num(100))),
     unit |-> String(Or(f.unit, UnitG))]

\* the routes that map every item; TextA and PhotoV1 return the items as
\* the model wrote them
NormalizingRoutes == {"TextB", "PhotoA", "PhotoB", "PhotoM"}

NormalizeItem(r, f) ==
    IF r = "PhotoM" THEN NormalizeItemMulti(f)
    ELSE IF r \in NormalizingRoutes THEN NormalizeItemText(f)
    ELSE f

NormalizeFoods(r, items) ==
    [i \in 1..Len(items) |-> NormalizeItem(r, items[i])]

----------------------------------------------------------------------------
(* Totals.                                                                 *)

ZeroTotals ==
    [t |-> "object", calories |-> Num(0), carbs |-> Num(0), protein |-> Num(0),
     fat |-> Num(0), fiber |-> Num(0), netCarbs |-> Num(0)]

\* the reducer of TextA (route.ts:86-93) and PhotoV1 (part_003:110-117)
AddRaw(acc, f) ==
    [t |-> "object",
     calories |-> Plus(acc.calories, Or(f.calories, Num(0))),
     carbs |-> Plus(acc.carbs, Or(f.carbs, Num(0))),
     protein |-> Plus(acc.protein, Or(f.protein, Num(0))),
     fat |-> Plus(acc.fat, Or(f.fat, Num(0))),
     fiber |-> Plus(acc.fiber, Or(f.fiber, Num(0))),
     netCarbs |-> Plus(acc.netCarbs, Or(f.netCarbs, Num(0)))]

\* the reducer of the normalizing routes (part_002:131-138, 257-260)
AddNormalized(acc, f) ==
    [t |-> "object",
     calories |-> Plus(acc.calories, f.calories),
     carbs |-> Plus(acc.carbs, f.carbs),
     protein |-> Plus(acc.protein, f.protein),
     fat |-> Plus(acc.fat, f.fat),
     fiber |-> Plus(acc.fiber, f.fiber),
     netCarbs |-> Plus(acc.netCarbs, f.netCarbs)]

RECURSIVE Reduce(_, _, _)
\* foods.reduce(reducer, acc), left to right
Reduce(r, items, acc) ==
    IF items = <<>> THEN acc
    ELSE Reduce(r, Tail(items),
                IF r \in NormalizingRoutes
                THEN AddNormalized(acc, Head(items))
                ELSE AddRaw(acc, Head(items)))

\* if (!result.totalNutrition) result.totalNutrition = foods.reduce(...)
TotalNutrition(r, supplied, items) ==
    IF Truthy(supplied) THEN supplied ELSE Reduce(r, items, ZeroTotals)

----------------------------------------------------------------------------
(* Route responses.                                                        *)

\* NextResponse.json({ success: false, error }) with the HTTP status; detail
\* names what the body carries besides the fixed message
Failure(msg) ==
    [success |-> FALSE, error |-> msg, detail |-> "none", http |-> 200,
     foods |-> Undef, totalNutrition |-> Undef, transcription |-> Undef]

FailureWith(msg, what) == [Failure(msg) EXCEPT !.detail = what]

BadRequest(msg) == [Failure(msg) EXCEPT !.http = 400]

\* NextResponse.json({ success: true, data: { foods, totalNutrition } })
Success(foods, totals) ==
    [success |-> TRUE, error |-> "", detail |-> "none", http |-> 200,
     foods |-> foods, totalNutrition |-> totals, transcription |-> Undef]

\* NextResponse.json({ success: true, transcription })
Transcribed(text) ==
    [success |-> TRUE, error |-> "", detail |-> "none", http |-> 200,
     foods |-> Undef, totalNutrition |-> Undef, transcription |-> text]

\* no response returned yet
NoResp == Failure("(pending)")

\* what one pass over a reply ends in: a returned response, or (PhotoM) the
\* inner catch recording lastError and continuing with the next attempt
Return(rs) == [kind |-> "return", resp |-> rs, lastError |-> ""]
Continue(msg) == [kind |-> "continue", resp |-> NoResp, lastError |-> msg]

\* the empty check: TextA route.ts:78, TextB part_002:109 test Array.isArray;
\* the photo routes (part_003:102, route.ts:107, part_004:118, part_002:246)
\* test only falsiness and length === 0
FoodsRejected(r, foods) ==
    IF r \in TextRoutes
    THEN ~Truthy(foods) \/ ~IsArray(foods) \/ Length(foods) = Num(0)
    ELSE ~Truthy(foods) \/ Length(foods) = Num(0)

\* the message of the empty check
NoFoodsMessage(r) ==
    CASE r \in TextRoutes -> "No identifique alimentos"
      [] r = "PhotoM" -> "No detecte alimentos claros"
      [] OTHER -> "No se detectaron alimentos claros"

\* the catch around JSON.parse and what follows it
Caught(r) ==
    CASE r \in TextRoutes -> Return(Failure("No pude procesar"))
      [] r = "PhotoM" -> Continue("La IA respondio incorrectamente")
      [] OTHER -> Return(FailureWith("No pude analizar la imagen", "rawResponse"))

\* from JSON.parse to the returned response:
\* route.ts:75-109, part_002:106-154, part_003:99-128,
\* analyze-photo/route.ts:104-146, part_004:115-157, part_002:245-268
ReplyOutcome(r, reply) ==
    IF reply.t # "object"
    THEN Caught(r)                 \* JSON.parse threw, or null.foods
    ELSE IF FoodsRejected(r, reply.foods)
    THEN Return(Failure(NoFoodsMessage(r)))
    ELSE IF IsArray(reply.foods)
    THEN LET foods == NormalizeFoods(r, reply.foods.items)
         IN  Return(Success(Array(foods),
                            TotalNutrition(r, reply.totalNutrition, foods)))
    ELSE IF r \in NormalizingRoutes \/ ~Truthy(reply.totalNutrition)
    THEN Caught(r)                 \* foods.map / foods.reduce is no function
    ELSE Return(Success(reply.foods, reply.totalNutrition))

----------------------------------------------------------------------------
(* One invocation of a route: request validation.                          *)

GROQ_MODEL == "llama-3.3-70b-versatile"
VISION_MODELS == <<"llama-3.2-11b-vision-preview", "llama-3.2-90b-vision-preview">>
WHISPER_MODEL == "whisper-large-v3-turbo"

\* the model of the route's (first) provider call
ModelOf(r, idx) ==
    CASE r \in TextRoutes -> GROQ_MODEL
      [] r \in VoiceRoutes -> WHISPER_MODEL
      [] r = "PhotoM" -> VISION_MODELS[idx]
      [] r = "PhotoB" -> VISION_MODELS[1]
      [] OTHER -> VISION_MODELS[2]

\* TIMEOUT_MS of the routes that call fetchWithTimeout; 0 for the routes
\* that call fetch directly (route.ts:28, part_003:40, part_004:204)
TIMEOUT_MS(r) ==
    CASE r = "TextB" -> 30000
      [] r = "PhotoA" -> 45000
      [] r = "PhotoB" -> 60000
      [] r = "PhotoM" -> 90000
      [] r = "VoiceB" -> 30000
      [] OTHER -> 0

\* part_002:201: images under 5 KB are rejected (PhotoM only)
MIN_IMAGE_KB == 5
\* the size ceiling in KB: part_003:29, route.ts:42, part_004:42, part_002:202
MaxImageKB(r) == IF r \in {"PhotoA", "PhotoB"} THEN 3000 ELSE 4000

\* request bodies: present is the truthiness of the field, blank tells a
\* whitespace-only description, sizeKB is Math.round(imageBase64.length / 1024)
Payload(present, blank, sizeKB) ==
    [present |-> present, blank |-> blank, sizeKB |-> sizeKB]

AbsentPayload == Payload(FALSE, FALSE, 0)

Payloads(r) ==
    CASE r \in TextRoutes ->
           {AbsentPayload, Payload(TRUE, TRUE, 0), Payload(TRUE, FALSE, 0)}
      [] r \in VoiceRoutes -> {AbsentPayload, Payload(TRUE, FALSE, 1)}
      [] OTHER ->
           {AbsentPayload} \cup
           {Payload(TRUE, FALSE, kb) :
               kb \in {MIN_IMAGE_KB - 1, MIN_IMAGE_KB, MaxImageKB("PhotoA") + 1,
                       MaxImageKB("PhotoM") + 1}}

\* process.env.GROQ_API_KEY || request.headers.get('X-Groq-API-Key')
ApiKey(env, hdr) == IF env # "" THEN env ELSE hdr

Proceed == [ok |-> TRUE, resp |-> NoResp]
Reject(r) == [ok |-> FALSE, resp |-> r]

\* route.ts:8-26 and part_002:25-42: the key is checked before the text
ValidateText(key, body) ==
    IF key = "" THEN Reject(Failure("API key no configurada"))
    ELSE IF ~body.present \/ body.blank
    THEN Reject(Failure("Escribe algo para analizar"))
    ELSE Proceed

\* part_003:8-34, analyze-photo/route.ts:23-47, part_004:23-47,
\* part_002:192-202: the image is checked before the key
ValidatePhoto(r, key, body) ==
    IF ~body.present THEN Reject(BadRequest("Se requiere una imagen"))
    ELSE IF key = "" THEN Reject(Failure("API key no configurada"))
    ELSE IF r = "PhotoM" /\ body.sizeKB < MIN_IMAGE_KB
    THEN Reject(BadRequest("Imagen muy pequena o corrupta"))
    ELSE IF body.sizeKB > MaxImageKB(r)
    THEN Reject(BadRequest("Imagen muy grande"))
    ELSE Proceed

\* part_004:173-189 and part_004:265-275: the audio is checked before the key
ValidateVoice(key, body) ==
    IF ~body.present THEN Reject(BadRequest("Se requiere audio"))
    ELSE IF key = "" THEN Reject(Failure("API key no configurada"))
    ELSE Proceed

Validate(r, key, body) ==
    CASE r \in TextRoutes -> ValidateText(key, body)
      [] r \in VoiceRoutes -> ValidateVoice(key, body)
      [] OTHER -> ValidatePhoto(r, key, body)

----------------------------------------------------------------------------
(* One invocation of a route: the provider's answers.                      *)

\* how a provider call ended
Pending == [ev |-> "pending", status |-> 0]
Responded(status) == [ev |-> "response", status |-> status]
NetworkFailed == [ev |-> "network", status |-> 0]
TimedOut == [ev |-> "timeout", status |-> 0]

\* HTTP statuses the provider answers with
Statuses == {200, 400, 401, 403, 404, 429, 500, 503}

\* response.ok
IsOk(status) == status >= 200 /\ status <= 299

NegativeItem ==
    [name |-> Undef, calories |-> Num(0 - 1), carbs |-> Num(0 - 1),
     protein |-> Num(1), fat |-> Undef, fiber |-> Num(0 - 2),
     netCarbs |-> Undef, servingSize |-> Num(0), unit |-> Undef]

ObjectReply(foods, totals) ==
    [t |-> "object", foods |-> foods, totalNutrition |-> totals]

\* chat-completion contents the provider answers with
ChatBodies ==
    {SyntaxError,
     ObjectReply(Array(<<>>), Undef),
     ObjectReply(ModelStr, Undef),
     ObjectReply(Array(<<HuevoFrito, Tocino>>), Undef),
     ObjectReply(Array(<<NegativeItem>>), ModelTotals)}

\* data.text of a transcription
TranscriptionBodies == {Undef, EmptyStr, BlankStr, ModelStr}

Bodies(r) == IF r \in VoiceRoutes THEN TranscriptionBodies ELSE ChatBodies

\* the branch taken on !response.ok in the single-call routes:
\* route.ts:53-60, part_002:71-91, part_003:76-83,
\* analyze-photo/route.ts:82-93, part_004:87-104, 212-219, 299-310
StatusFailure(r, status) ==
    CASE r = "TextA" -> Failure("Error de API. Verifica tu API key de Groq")
      [] r = "PhotoV1" -> Failure("Error al analizar imagen. Intenta con texto")
      [] r = "VoiceA" -> Failure("Error al transcribir audio")
      [] status \in {401, 403} -> Failure("API Key invalida")
      [] status = 429 -> Failure("Limite de API alcanzado")
      [] r = "PhotoB" /\ status = 400 -> Failure("Imagen no valida")
      [] r = "PhotoB" /\ status >= 500 ->
           Failure("Error temporal del servidor de IA")
      [] r = "PhotoB" -> Failure("Error al analizar la foto")
      [] r = "TextB" -> Failure("Error de API. Intenta de nuevo")
      [] r = "PhotoA" -> Failure("Error al analizar. Intenta con texto")
      [] OTHER -> Failure("Error al transcribir audio")

\* the outer catch of the single-call routes, on a rejected fetch (ev is
\* "network") or on fetchWithTimeout's 'Request timeout' (ev is "timeout"):
\* route.ts:110-116, part_002:155-167, part_003:129-135,
\* analyze-photo/route.ts:147-153, part_004:158-164, 235-241, 328-337
ThrownFailure(r, ev) ==
    CASE ev = "timeout" -> Failure("Tiempo de espera agotado")
      [] r = "TextB" -> Failure("Error inesperado")
      [] r \in PhotoRoutes ->
           FailureWith("Error al procesar: fetch failed", "exceptionMessage")
      [] OTHER -> FailureWith("fetch failed", "exceptionMessage")

\* a route that tests the transcription for absence alone, not for blanks
TranscriptionOutcomeUntrimmed(r, text) ==
    IF ~Truthy(text) THEN Failure("No pude entender el audio")
    ELSE Transcribed(text)

\* part_004:221-234 (VoiceA) and part_004:312-327 (VoiceB)
TranscriptionOutcome(r, text) ==
    IF r = "VoiceA"
    THEN IF ~Truthy(text) \/ Trim(text) = EmptyStr
         THEN Failure("No pude entender el audio")
         ELSE Transcribed(text)
    ELSE LET transcription == IF text = Undef THEN Undef ELSE Trim(text)
         IN  IF ~Truthy(transcription)
             THEN Failure("No pude entender el audio")
             ELSE Transcribed(transcription)

\* part_002:208: for (let attempt = 1; attempt <= 2; attempt++)
MAX_ATTEMPTS == 2

\* `Error ${response.status}`
ErrorStatus(status) ==
    CASE status = 404 -> "Error 404"
      [] status = 500 -> "Error 500"
      [] status = 503 -> "Error 503"
      [] OTHER -> "Error"

\* the loop body of a route that gives up at the first HTTP 429
MultiOutcomeNoFallback(outcome, body) ==
    IF outcome.ev # "response"
    THEN Continue("La IA respondio incorrectamente")
    ELSE IF IsOk(outcome.status) THEN ReplyOutcome("PhotoM", body)
    ELSE IF outcome.status \in {401, 403, 429}
    THEN Return(Failure(IF outcome.status = 429 THEN "Limite de API alcanzado"
                        ELSE "API Key invalida"))
    ELSE IF outcome.status = 400 THEN Continue("Imagen no procesada")
    ELSE Continue(ErrorStatus(outcome.status))

\* the loop body of a route that goes on to the next attempt after a 401/403
MultiOutcomeRetriesCredential(outcome, body) ==
    IF outcome.ev # "response"
    THEN Continue("La IA respondio incorrectamente")
    ELSE IF IsOk(outcome.status) THEN ReplyOutcome("PhotoM", body)
    ELSE IF outcome.status \in {401, 403} THEN Continue("API Key invalida")
    ELSE IF outcome.status = 429 THEN Continue("Limite de API alcanzado")
    ELSE IF outcome.status = 400 THEN Continue("Imagen no procesada")
    ELSE Continue(ErrorStatus(outcome.status))

\* PhotoM, one pass of the loop body after the fetch settled:
\* part_002:228-235 (status), 237-264 (reply), 265-268 (inner catch)
MultiOutcome(outcome, body) ==
    IF outcome.ev # "response"
    THEN Continue("La IA respondio incorrectamente")
    ELSE IF IsOk(outcome.status) THEN ReplyOutcome("PhotoM", body)
    ELSE IF outcome.status \in {401, 403}
    THEN Return(Failure("API Key invalida"))
    ELSE IF outcome.status = 429 THEN Continue("Limite de API alcanzado")
    ELSE IF outcome.status = 400 THEN Continue("Imagen no procesada")
    ELSE Continue(ErrorStatus(outcome.status))

\* a single-call route after its fetch settled
SingleOutcome(r, outcome, body) ==
    IF outcome.ev # "response" THEN Return(ThrownFailure(r, outcome.ev))
    ELSE IF ~IsOk(outcome.status) THEN Return(StatusFailure(r, outcome.status))
    ELSE IF r \in VoiceRoutes THEN Return(TranscriptionOutcome(r, body))
    ELSE ReplyOutcome(r, body)

RouteOutcome(r, outcome, body) ==
    IF r = "PhotoM" THEN MultiOutcome(outcome, body)
    ELSE SingleOutcome(r, outcome, body)

----------------------------------------------------------------------------
(* Specification SpecRoute: one invocation of a route, from the request to *)
(* the returned response, against a provider that answers with any status, *)
(* fails at the network, or never answers.                                 *)

\* the reply-processing variables, at rest
ReplyIdle ==
    /\ rroute = "TextA"
    /\ rreply = SyntaxError
    /\ rresp = NoResp
    /\ rpc = "idle"

RouteInit ==
    /\ ReplyIdle
    /\ ExtractIdle
    /\ ImageIdle
    /\ UiIdle
    /\ route \in Routes
    /\ envKey \in {"", "env-key"}
    /\ hdrKey \in {"", "hdr-key"}
    /\ payload \in Payloads(route)
    /\ pc = "idle"
    /\ modelIdx = 1
    /\ attempt = 1
    /\ lastError = ""
    /\ timer = 0
    /\ hang = FALSE
    /\ calls = <<>>
    /\ lastReply = Undef
    /\ resp = NoResp

\* the record of a provider call just sent
Call(r, idx, key) == [model |-> ModelOf(r, idx), key |-> key, outcome |-> Pending]

\* fetchWithTimeout arms its timer for TIMEOUT_MS (part_002:7-9); a plain
\* fetch arms none
ArmedTimer(r) == TIMEOUT_MS(r)

\* POST up to its first await: validation, then the first provider call
POST ==
    /\ pc = "idle"
    /\ LET key == ApiKey(envKey, hdrKey)
           v == Validate(route, key, payload)
       IN  IF v.ok
           THEN /\ calls' = <<Call(route, 1, key)>>
                /\ timer' = ArmedTimer(route)
                /\ hang' \in BOOLEAN
                /\ pc' = "awaiting"
                /\ resp' = resp
           ELSE /\ resp' = v.resp
                /\ pc' = "done"
                /\ UNCHANGED <<calls, timer, hang>>
    /\ UNCHANGED <<route, envKey, hdrKey, payload, modelIdx, attempt,
                   lastError, lastReply>>
    /\ UNCHANGED <<replyVars, extractVars, imageVars, uiVars>>

\* PhotoM: is there another (model, attempt) pair after this one
HasNext(idx, att) == att < MAX_ATTEMPTS \/ idx < Len(VISION_MODELS)
\* a loop that moves to the next model after every failed attempt
NextIdxEager(idx, att) == IF idx < Len(VISION_MODELS) THEN idx + 1 ELSE idx

NextIdx(idx, att) == IF att < MAX_ATTEMPTS THEN idx ELSE idx + 1
NextAttempt(idx, att) == IF att < MAX_ATTEMPTS THEN att + 1 ELSE 1

\* a final report that always carries the generic message
ExhaustedGeneric(err) == Failure("No pude analizar. Intenta con texto")

\* part_002:271: lastError || 'No pude analizar. Intenta con texto.'
Exhausted(err) ==
    Failure(IF err = "" THEN "No pude analizar. Intenta con texto" ELSE err)

\* the handler resumes after its fetch settled with `outcome` (and, for a
\* 2xx response, the parsed body): it returns a response, or (PhotoM)
\* records lastError and sends the next call
Resume(outcome, body) ==
    LET out == RouteOutcome(route, outcome, body)
        settled == [calls EXCEPT ![Len(calls)].outcome = outcome]
    IN  /\ lastReply' = IF outcome.ev = "response" /\ IsOk(outcome.status)
                        THEN body ELSE lastReply
        /\ IF out.kind = "return"
           THEN /\ resp' = out.resp
                /\ pc' = "done"
                /\ calls' = settled
                /\ timer' = 0
                /\ hang' = FALSE
                /\ UNCHANGED <<modelIdx, attempt, lastError>>
           ELSE /\ lastError' = out.lastError
                /\ IF HasNext(modelIdx, attempt)
                   THEN /\ modelIdx' = NextIdx(modelIdx, attempt)
                        /\ attempt' = NextAttempt(modelIdx, attempt)
                        /\ calls' = Append(settled,
                                      Call(route, NextIdx(modelIdx, attempt),
                                           ApiKey(envKey, hdrKey)))
                        /\ timer' = ArmedTimer(route)
                        /\ hang' \in BOOLEAN
                        /\ pc' = "awaiting"
                        /\ resp' = resp
                   ELSE /\ resp' = Exhausted(out.lastError)
                        /\ pc' = "done"
                        /\ calls' = settled
                        /\ timer' = 0
                        /\ hang' = FALSE
                        /\ UNCHANGED <<modelIdx, attempt>>
        /\ UNCHANGED <<route, envKey, hdrKey, payload>>
        /\ UNCHANGED <<replyVars, extractVars, imageVars, uiVars>>

\* the provider answers the call in flight
FetchResolves ==
    /\ pc = "awaiting"
    /\ ~hang
    /\ \E status \in Statuses :
         \E body \in IF IsOk(status) THEN Bodies(route) ELSE {Undef} :
            Resume(Responded(status), body)

\* the call in flight fails at the network: fetch rejects
FetchRejects ==
    /\ pc = "awaiting"
    /\ ~hang
    /\ Resume(NetworkFailed, Undef)

\* fetchWithTimeout's timer fires: controller.abort(), 'Request timeout'
AbortFires ==
    /\ pc = "awaiting"
    /\ timer # 0
    /\ Resume(TimedOut, Undef)

RouteNext == POST \/ FetchResolves \/ FetchRejects \/ AbortFires

SpecRoute == RouteInit /\ [][RouteNext]_vars

----------------------------------------------------------------------------
(* Specification SpecReply: a route revision turns a parsed reply into its *)
(* response, for every reply in ParsedReplies.                             *)

\* the invocation variables, at rest
RouteIdle ==
    /\ route = "TextA"
    /\ envKey = ""
    /\ hdrKey = ""
    /\ payload = AbsentPayload
    /\ pc = "off"
    /\ modelIdx = 1
    /\ attempt = 1
    /\ lastError = ""
    /\ timer = 0
    /\ hang = FALSE
    /\ calls = <<>>
    /\ lastReply = Undef
    /\ resp = NoResp

ReplyInit ==
    /\ RouteIdle
    /\ ExtractIdle
    /\ ImageIdle
    /\ UiIdle
    /\ rroute \in AnalysisRoutes
    /\ rreply \in ParsedReplies
    /\ rresp = NoResp
    /\ rpc = "parsed"

\* the route runs from JSON.parse to the end of its try block: it returns
\* its response, or (PhotoM's inner catch) goes on to the next attempt
RespondToReply ==
    /\ rpc = "parsed"
    /\ LET out == ReplyOutcome(rroute, rreply)
       IN  /\ rresp' = out.resp
           /\ rpc' = IF out.kind = "return" THEN "done" ELSE "retry"
    /\ UNCHANGED <<rroute, rreply>>
    /\ UNCHANGED <<routeVars, extractVars, imageVars, uiVars>>

ReplyNext == RespondToReply

SpecReply == ReplyInit /\ [][ReplyNext]_vars

----------------------------------------------------------------------------
(* Response extraction: the route turns the model's text into the value    *)
(* JSON.parse returns.  A text is a sequence of tokens:                    *)
(*   "{" "}"    braces                                                     *)
(*   "foods"    the quoted key "foods" (with its colon)                    *)
(*   "item"     any other JSON content without braces or backticks         *)
(*   "qtick"    a JSON string literal whose text holds three backticks     *)
(*   "qempty"   that literal with the backticks removed                    *)
(*   "fence"    a code-fence marker (three backticks)                      *)
(*   "json"     the word json                                              *)
(*   "nl"       a line break                                               *)
(*   "word"     prose without braces, backticks or the quoted key          *)

\* leading and trailing prose hold at most MaxProse tokens
MaxProse == 2

ProseTokens == {"word", "{", "}"}
Prose == SeqsUpTo(ProseTokens, MaxProse)

\* JSON objects with a "foods" key
EmbeddedObjects ==
    { <<"{", "foods", "}">>,
      <<"{", "nl", "foods", "nl", "}">>,
      <<"{", "foods", "{", "item", "}", "}">>,
      <<"{", "item", "foods", "}">>,
      <<"{", "foods", "qtick", "}">> }

\* a reply: leading prose, a code fence (tagged json or not, with line
\* breaks or not) around one object, trailing prose
ReplyParts ==
    [lead : Prose, tagged : BOOLEAN, breaks : BOOLEAN,
     object : EmbeddedObjects, trail : Prose]

Break(p) == IF p.breaks THEN <<"nl">> ELSE <<>>

ContentOf(p) ==
    p.lead \o <<"fence">> \o (IF p.tagged THEN <<"json">> ELSE <<>>) \o Break(p)
      \o p.object \o Break(p) \o <<"fence">> \o Break(p) \o p.trail

Range(s) == {s[i] : i \in 1..Len(s)}
Drop(s, n) == SubSeq(s, n + 1, Len(s))

\* jsonStr.replace(/```json\n?/g, '')
RECURSIVE ReplaceJsonFence(_)
ReplaceJsonFence(s) ==
    IF s = <<>> THEN <<>>
    ELSE IF Len(s) >= 2 /\ s[1] = "fence" /\ s[2] = "json"
    THEN IF Len(s) >= 3 /\ s[3] = "nl" THEN ReplaceJsonFence(Drop(s, 3))
         ELSE ReplaceJsonFence(Drop(s, 2))
    ELSE <<s[1]>> \o ReplaceJsonFence(Tail(s))

\* jsonStr.replace(/```\n?/g, '')
RECURSIVE ReplaceFence(_)
ReplaceFence(s) ==
    IF s = <<>> THEN <<>>
    ELSE IF s[1] = "fence"
    THEN IF Len(s) >= 2 /\ s[2] = "nl" THEN ReplaceFence(Drop(s, 2))
         ELSE ReplaceFence(Drop(s, 1))
    ELSE IF s[1] = "qtick" THEN <<"qempty">> \o ReplaceFence(Tail(s))
    ELSE <<s[1]>> \o ReplaceFence(Tail(s))

\* jsonStr.includes('```')
IncludesFence(s) == "fence" \in Range(s) \/ "qtick" \in Range(s)

\* String.prototype.trim
RECURSIVE TrimStart(_)
TrimStart(s) ==
    IF s # <<>> /\ s[1] = "nl" THEN TrimStart(Tail(s)) ELSE s

RECURSIVE TrimEnd(_)
TrimEnd(s) ==
    IF s # <<>> /\ s[Len(s)] = "nl" THEN TrimEnd(SubSeq(s, 1, Len(s) - 1))
    ELSE s

TrimText(s) == TrimEnd(TrimStart(s))

\* the text the pattern is matched against
StripFences(r, s) ==
    CASE r \in {"TextA", "PhotoV1"} ->
           IF IncludesFence(s) THEN ReplaceFence(ReplaceJsonFence(s)) ELSE s
      [] r = "PhotoM" -> TrimText(ReplaceFence(ReplaceJsonFence(s)))
      [] OTHER -> ReplaceFence(ReplaceJsonFence(s))

Positions(s, tok) == {i \in 1..Len(s) : s[i] = tok}
Least(S) == CHOOSE x \in S : \A y \in S : x <= y
Greatest(S) == CHOOSE x \in S : \A y \in S : x >= y

\* match() returned null
NoMatch == [from |-> 0, to |-> 0]

\* the "{" from which the pattern can match: a "foods" follows, then a "}"
MatchStarts(s) ==
    {i \in Positions(s, "{") :
        \E j \in Positions(s, "foods"), k \in Positions(s, "}") : i < j /\ j < k}

\* a pattern with lazy quantifiers: /\{[\s\S]*?"foods"[\s\S]*?\}/
MatchFoodsLazy(s) ==
    IF MatchStarts(s) = {} THEN NoMatch
    ELSE LET i == Least(MatchStarts(s))
             j == Least({x \in Positions(s, "foods") : x > i})
         IN  [from |-> i, to |-> Least({k \in Positions(s, "}") : k > j})]

\* jsonStr.match(/\{[\s\S]*"foods"[\s\S]*\}/): the leftmost match, both
\* quantifiers greedy
MatchFoods(s) ==
    IF MatchStarts(s) = {} THEN NoMatch
    ELSE [from |-> Least(MatchStarts(s)), to |-> Greatest(Positions(s, "}"))]

\* if (jsonMatch) jsonStr = jsonMatch[0]
Matched(s, m) == IF m = NoMatch THEN s ELSE SubSeq(s, m.from, m.to)

JsonTokens == {"{", "}", "foods", "item", "qtick", "qempty", "nl"}

Depth(s, i) ==
    Cardinality({j \in 1..i : s[j] = "{"}) - Cardinality({j \in 1..i : s[j] = "}"})

\* the text is one JSON object and nothing else
WellFormed(s) ==
    /\ Len(s) >= 2
    /\ s[1] = "{"
    /\ Range(s) \subseteq JsonTokens
    /\ \A i \in 1..(Len(s) - 1) : Depth(s, i) > 0
    /\ Depth(s, Len(s)) = 0

IsBreak(tok) == tok = "nl"
NotBreak(tok) == ~IsBreak(tok)

\* JSON.parse: the object's content (white space is not part of it), or a
\* SyntaxError
JSONparse(s) ==
    IF WellFormed(s) THEN [t |-> "object", members |-> SelectSeq(s, NotBreak)]
    ELSE SyntaxError

\* the route's parse of its matched text
ParseMatched(r, s) ==
    IF r = "PhotoM" THEN JSONparse(s) ELSE JSONparse(TrimText(s))

----------------------------------------------------------------------------
(* Specification SpecExtract: a route revision extracts the object from a  *)
(* reply made of prose, a code fence around an object, and prose.          *)

ExtractInit ==
    /\ ReplyIdle
    /\ RouteIdle
    /\ ImageIdle
    /\ UiIdle
    /\ xroute \in AnalysisRoutes
    /\ parts \in ReplyParts
    /\ content = ContentOf(parts)
    /\ stripped = <<>>
    /\ jsonMatch = NoMatch
    /\ result = [t |-> "undefined"]
    /\ xpc = "replied"

\* from the reply's content to JSON.parse
Extract ==
    /\ xpc = "replied"
    /\ LET text == StripFences(xroute, content)
           m == MatchFoods(text)
       IN  /\ stripped' = text
           /\ jsonMatch' = m
           /\ result' = ParseMatched(xroute, Matched(text, m))
    /\ xpc' = "extracted"
    /\ UNCHANGED <<xroute, parts, content>>
    /\ UNCHANGED <<replyVars, routeVars, imageVars, uiVars>>

ExtractNext == Extract

SpecExtract == ExtractInit /\ [][ExtractNext]_vars

----------------------------------------------------------------------------
(* Image normalization: the size of the canvas the image is drawn to.      *)
(* A scale factor is kept as an exact fraction.                            *)

\* image widths and heights range over 1..MaxDim, sampled: the smallest
\* sizes, the sizes around each multiple of DimStep, and the sizes around
\* each routine's maximum edge
MaxDim == 8000
DimStep == 100
SmallDim == 3

\* the resize routines of the repository
Resizers ==
    {"processBlob",        \* camera-capture.tsx:866-931
     "processImageScale",  \* camera-capture.tsx:15-80
     "processImage",       \* settings-modal.tsx:372-398
     "processImageNested"} \* camera-capture.tsx:1214-1280

MAX_SIZE == 800

\* the routine's maximum edge length
MaxEdge(z) ==
    CASE z = "processBlob" -> MAX_SIZE
      [] z = "processImageScale" -> 800
      [] z = "processImage" -> 640
      [] z = "processImageNested" -> 1024

Dims ==
    {d \in 1..MaxDim :
        \/ d <= SmallDim
        \/ d % DimStep \in {0, 1, DimStep - 1}
        \/ \E z \in Resizers : d \in (MaxEdge(z) - 1)..(MaxEdge(z) + 1)}

Frac(n, d) == [n |-> n, d |-> d]
MinFrac(a, b) == IF b.n * a.d < a.n * b.d THEN b ELSE a

\* Math.round(n / d), for n >= 0 and d > 0
RoundDiv(n, d) == (2 * n + d) \div (2 * d)

\* Math.min(MAX / width, MAX / height) with no upper limit of 1
ScaleUncapped(z, w, h) ==
    MinFrac(Frac(MaxEdge(z), w), Frac(MaxEdge(z), h))

\* Math.min(MAX_SIZE / width, MAX_SIZE / height, 1)
Scale(z, w, h) ==
    MinFrac(MinFrac(Frac(MaxEdge(z), w), Frac(MaxEdge(z), h)), Frac(1, 1))

\* if (pixels > 5000000) scale = Math.min(scale, 0.4)
ScaleOfBlob(w, h) ==
    IF w * h > 5000000 THEN MinFrac(Scale("processBlob", w, h), Frac(2, 5))
    ELSE Scale("processBlob", w, h)

Size(w, h) == [width |-> w, height |-> h]

\* width = Math.round(width * scale); height = Math.round(height * scale)
ResizeByScale(w, h, scale) ==
    Size(RoundDiv(w * scale.n, scale.d), RoundDiv(h * scale.n, scale.d))

\* if (w > h && w > max) {...} else if (h > max) {...}
ResizeByBranch(w, h, max) ==
    IF w > h /\ w > max THEN Size(max, RoundDiv(h * max, w))
    ELSE IF h > max THEN Size(RoundDiv(w * max, h), max)
    ELSE Size(w, h)

\* if (width > height) { if (width > MAX_WIDTH) {...} }
\* else { if (height > MAX_HEIGHT) {...} }
ResizeNested(w, h, max) ==
    IF w > h
    THEN IF w > max THEN Size(max, RoundDiv(h * max, w)) ELSE Size(w, h)
    ELSE IF h > max THEN Size(RoundDiv(w * max, h), max) ELSE Size(w, h)

CanvasSize(z, w, h) ==
    CASE z = "processBlob" -> ResizeByScale(w, h, ScaleOfBlob(w, h))
      [] z = "processImageScale" -> ResizeByScale(w, h, Scale(z, w, h))
      [] z = "processImage" -> ResizeByBranch(w, h, MaxEdge(z))
      [] z = "processImageNested" -> ResizeNested(w, h, MaxEdge(z))

----------------------------------------------------------------------------
(* Specification SpecImage: a decoded image is sized for the canvas.       *)

ImageInit ==
    /\ ReplyIdle
    /\ RouteIdle
    /\ ExtractIdle
    /\ UiIdle
    /\ resizer \in Resizers
    /\ img \in [width : Dims, height : Dims]
    /\ canvas = Size(0, 0)
    /\ ipc = "loaded"

\* img.onload, up to canvas.width = width; canvas.height = height
Resize ==
    /\ ipc = "loaded"
    /\ canvas' = CanvasSize(resizer, img.width, img.height)
    /\ ipc' = "drawn"
    /\ UNCHANGED <<resizer, img>>
    /\ UNCHANGED <<replyVars, routeVars, extractVars, uiVars>>

ImageNext == Resize

SpecImage == ImageInit /\ [][ImageNext]_vars

----------------------------------------------------------------------------
(* Camera capture: the CameraCapture component acquires camera streams     *)
(* with getUserMedia and must stop their tracks.  The revisions:           *)
(*   CameraA        camera-capture.tsx:99-149 (and 1297-1344)              *)
(*   CameraB        camera-capture.tsx:947-980 (and 592-625)               *)
(*   CameraCompact  settings-modal.tsx:409-469                             *)

\* one component makes at most MaxRequests getUserMedia calls
MaxRequests == 3

CameraRevisions == {"CameraA", "CameraB", "CameraCompact"}

\* a getUserMedia call in flight: the effect run that made it (by is
\* "effect"), or the compact revision's switch button (by is "switch")
Request(id, gen, by) == [id |-> id, gen |-> gen, by |-> by]

\* streamRef.current?.getTracks().forEach(t => t.stop())
StopTracks(trs, ref) ==
    IF ref = 0 THEN trs ELSE [trs EXCEPT ![ref] = "stopped"]

\* the closure's mounted / active flag, as the continuation reads it
ClosureMounted(req) == camMounted /\ req.gen = effectGen

\* the revisions whose continuation stops a stream that arrives after the
\* cleanup ran
StopsLateStream(rev) == rev \in {"CameraA", "CameraCompact"}

----------------------------------------------------------------------------
(* Specification SpecCamera: the component is mounted, the user switches   *)
(* cameras and closes the component while getUserMedia calls settle.       *)

CameraInit ==
    /\ ReplyIdle
    /\ RouteIdle
    /\ ExtractIdle
    /\ ImageIdle
    /\ VoiceIdle
    /\ AnalyzeIdle
    /\ QualityIdle
    /\ FlowIdle
    /\ UploadIdle
    /\ PageIdle
    /\ SettingsIdle
    /\ camRev \in CameraRevisions
    /\ camMounted = TRUE
    /\ effectGen = 1
    /\ requests = {Request(1, 1, "effect")}
    /\ tracks = <<>>
    /\ streamRef = 0
    /\ cameraReady = FALSE
    /\ requested = 1

CameraUnchanged ==
    UNCHANGED <<replyVars, routeVars, extractVars, imageVars, voiceVars,
                analyzeVars, qualityVars,
                flowVars,
                uploadVars,
                pageVars,
                settingsVars>>

\* getUserMedia resolves with a new stream and the code after the await
\* (or the then callback) runs
StreamResolves ==
    /\ \E req \in requests :
         LET id == Len(tracks) + 1
         IN  /\ requests' = requests \ {req}
             /\ IF req.by = "switch" \/ ClosureMounted(req)
                THEN /\ tracks' = Append(tracks, "live")
                     /\ streamRef' = id
                     /\ cameraReady' = (cameraReady \/ req.by = "effect")
                ELSE /\ tracks' = Append(tracks,
                                    IF StopsLateStream(camRev) THEN "stopped"
                                    ELSE "live")
                     /\ UNCHANGED <<streamRef, cameraReady>>
    /\ UNCHANGED <<camRev, camMounted, effectGen, requested>>
    /\ CameraUnchanged

\* getUserMedia rejects: the catch block changes flags only
StreamRejects ==
    /\ \E req \in requests : requests' = requests \ {req}
    /\ UNCHANGED <<camRev, camMounted, effectGen, tracks, streamRef,
                   cameraReady, requested>>
    /\ CameraUnchanged

\* switchCamera: setFacingMode re-runs the effect: the cleanup of the old
\* run, then initCamera of the new one up to its await
SwitchCamera ==
    /\ camRev \in {"CameraA", "CameraB"}
    /\ camMounted
    /\ requested < MaxRequests
    /\ effectGen' = effectGen + 1
    /\ tracks' = StopTracks(tracks, streamRef)
    /\ requested' = requested + 1
    /\ requests' = requests \cup {Request(requested + 1, effectGen + 1, "effect")}
    /\ UNCHANGED <<camRev, camMounted, streamRef, cameraReady>>
    /\ CameraUnchanged

\* the compact revision's switch button
SwitchButton ==
    /\ camRev = "CameraCompact"
    /\ camMounted /\ cameraReady
    /\ streamRef # 0
    /\ requested < MaxRequests
    /\ tracks' = StopTracks(tracks, streamRef)
    /\ requested' = requested + 1
    /\ requests' = requests \cup {Request(requested + 1, effectGen, "switch")}
    /\ UNCHANGED <<camRev, camMounted, effectGen, streamRef, cameraReady>>
    /\ CameraUnchanged

\* the component is unmounted: the effect's cleanup runs
Unmount ==
    /\ camMounted
    /\ camMounted' = FALSE
    /\ tracks' = StopTracks(tracks, streamRef)
    /\ UNCHANGED <<camRev, effectGen, requests, streamRef, cameraReady,
                   requested>>
    /\ CameraUnchanged

CameraNext ==
    StreamResolves \/ StreamRejects \/ SwitchCamera \/ SwitchButton \/ Unmount

SpecCamera == CameraInit /\ [][CameraNext]_vars

----------------------------------------------------------------------------
(* Voice capture: the VoiceInput component (settings-modal.tsx:158-224)    *)
(* records the microphone.  Each acquired stream has its own MediaRecorder *)
(* whose onstop handler stops the stream's tracks, so a stream is live     *)
(* exactly while its recorder is recording.                                *)

\* one component makes at most MaxRecordings getUserMedia calls
MaxRecordings == 3

----------------------------------------------------------------------------
(* Specification SpecVoice: the voice modal is open; the user starts and   *)
(* stops recordings, discards them and closes the modal while              *)
(* getUserMedia calls settle.                                              *)

VoiceInit ==
    /\ ReplyIdle
    /\ RouteIdle
    /\ ExtractIdle
    /\ ImageIdle
    /\ CameraIdle
    /\ AnalyzeIdle
    /\ QualityIdle
    /\ FlowIdle
    /\ UploadIdle
    /\ PageIdle
    /\ SettingsIdle
    /\ voiceOpen = TRUE
    /\ micPending = 0
    /\ micTracks = <<>>
    /\ mediaRecorderRef = 0
    /\ isRecording = FALSE
    /\ audioBlob = FALSE
    /\ hasPermission = "null"

VoiceUnchanged ==
    UNCHANGED <<replyVars, routeVars, extractVars, imageVars, cameraVars,
                analyzeVars, qualityVars,
                flowVars,
                uploadVars,
                pageVars,
                settingsVars>>

\* the round button while isRecording is false: startRecording up to its await
StartRecording ==
    /\ voiceOpen
    /\ ~audioBlob /\ ~isRecording
    /\ micPending + Len(micTracks) < MaxRecordings
    /\ micPending' = micPending + 1
    /\ UNCHANGED <<voiceOpen, micTracks, mediaRecorderRef, isRecording,
                   audioBlob, hasPermission>>
    /\ VoiceUnchanged

\* getUserMedia resolves: the rest of startRecording.  The state setters of
\* a component that is no longer mounted have no effect.
MicResolves ==
    /\ micPending > 0
    /\ micPending' = micPending - 1
    /\ micTracks' = Append(micTracks, "live")
    /\ mediaRecorderRef' = Len(micTracks) + 1
    /\ isRecording' = (voiceOpen \/ isRecording)
    /\ hasPermission' = IF voiceOpen THEN "true" ELSE hasPermission
    /\ UNCHANGED <<voiceOpen, audioBlob>>
    /\ VoiceUnchanged

\* getUserMedia rejects: the catch block of startRecording
MicRejects ==
    /\ micPending > 0
    /\ micPending' = micPending - 1
    /\ hasPermission' = IF voiceOpen THEN "false" ELSE hasPermission
    /\ UNCHANGED <<voiceOpen, micTracks, mediaRecorderRef, isRecording,
                   audioBlob>>
    /\ VoiceUnchanged

\* the round button while isRecording is true: stopRecording, and the
\* recorder's onstop handler
StopRecording ==
    /\ voiceOpen
    /\ ~audioBlob /\ isRecording
    /\ mediaRecorderRef # 0
    /\ micTracks' = [micTracks EXCEPT ![mediaRecorderRef] = "stopped"]
    /\ audioBlob' = TRUE
    /\ isRecording' = FALSE
    /\ UNCHANGED <<voiceOpen, micPending, mediaRecorderRef, hasPermission>>
    /\ VoiceUnchanged

\* the Repetir button
ResetRecording ==
    /\ voiceOpen
    /\ audioBlob
    /\ audioBlob' = FALSE
    /\ UNCHANGED <<voiceOpen, micPending, micTracks, mediaRecorderRef,
                   isRecording, hasPermission>>
    /\ VoiceUnchanged

\* the close button: onClose unmounts the component, which has no cleanup
CloseVoice ==
    /\ voiceOpen
    /\ voiceOpen' = FALSE
    /\ UNCHANGED <<micPending, micTracks, mediaRecorderRef, isRecording,
                   audioBlob, hasPermission>>
    /\ VoiceUnchanged

VoiceNext ==
    \/ StartRecording
    \/ MicResolves
    \/ MicRejects
    \/ StopRecording
    \/ ResetRecording
    \/ CloseVoice

SpecVoice == VoiceInit /\ [][VoiceNext]_vars

----------------------------------------------------------------------------
(* The page's analysis handlers (page.tsx:214-328): handlePhotoCapture,    *)
(* handleVoiceTranscript and handleTextAnalyze share the one flag          *)
(* isAnalyzing, which the modals receive as isAnalyzing / isProcessing and *)
(* use to disable their submit buttons.                                    *)

\* at most MaxInvocations handler invocations are started
MaxInvocations == 3

Modals == {"camera", "voice", "text"}

\* the modal whose submit button calls the handler
ModalOf(handler) ==
    CASE handler = "handlePhotoCapture" -> "camera"
      [] handler = "handleVoiceTranscript" -> "voice"
      [] handler = "handleTextAnalyze" -> "text"

\* the first fetch the handler awaits
FirstFetch(handler) ==
    CASE handler = "handlePhotoCapture" -> "/api/analyze-photo"
      [] handler = "handleVoiceTranscript" -> "/api/analyze-voice"
      [] handler = "handleTextAnalyze" -> "/api/analyze-text"

\* an invocation of a handler and the fetch it awaits ("none" once it has
\* run its finally block)
Invocation(handler, awaits) == [handler |-> handler, awaits |-> awaits]

\* the invocations that have set the flag and not yet run their finally block
Awaiting == {i \in 1..Len(inFlight) : inFlight[i].awaits # "none"}

\* a handler is called: without a key it asks for one and returns, else it
\* sets the flag and awaits its first fetch
HandlerStarts(handler) ==
    IF ~apiKey
    THEN UNCHANGED <<isAnalyzing, inFlight, started>>
    ELSE /\ isAnalyzing' = TRUE
         /\ inFlight' = Append(inFlight, Invocation(handler, FirstFetch(handler)))
         /\ started' = started + 1

----------------------------------------------------------------------------
(* Specification SpecAnalyze: the user opens and closes the capture        *)
(* modals and submits from them while fetches settle.  The voice modal     *)
(* holds a finished recording.                                             *)

AnalyzeInit ==
    /\ ReplyIdle
    /\ RouteIdle
    /\ ExtractIdle
    /\ ImageIdle
    /\ CameraIdle
    /\ VoiceIdle
    /\ QualityIdle
    /\ FlowIdle
    /\ UploadIdle
    /\ PageIdle
    /\ SettingsIdle
    /\ apiKey \in BOOLEAN
    /\ modal = "none"
    /\ isAnalyzing = FALSE
    /\ reads = 0
    /\ inFlight = <<>>
    /\ started = 0

AnalyzeUnchanged ==
    UNCHANGED <<replyVars, routeVars, extractVars, imageVars, cameraVars,
                voiceVars, qualityVars,
                flowVars,
                uploadVars,
                pageVars,
                settingsVars>>

\* a footer button of the page
OpenModal ==
    /\ modal = "none"
    /\ modal' \in Modals
    /\ UNCHANGED <<apiKey, isAnalyzing, reads, inFlight, started>>
    /\ AnalyzeUnchanged

\* the close button of the modal shown
CloseModal ==
    /\ modal # "none"
    /\ modal' = "none"
    /\ UNCHANGED <<apiKey, isAnalyzing, reads, inFlight, started>>
    /\ AnalyzeUnchanged

\* the Analizar button of the camera modal: confirmCapture calls onCapture
ConfirmCapture ==
    /\ modal = "camera"
    /\ ~isAnalyzing
    /\ started + reads < MaxInvocations
    /\ HandlerStarts("handlePhotoCapture")
    /\ UNCHANGED <<apiKey, modal, reads>>
    /\ AnalyzeUnchanged

\* the Analizar button of the text modal
SubmitText ==
    /\ modal = "text"
    /\ ~isAnalyzing
    /\ started + reads < MaxInvocations
    /\ HandlerStarts("handleTextAnalyze")
    /\ UNCHANGED <<apiKey, modal, reads>>
    /\ AnalyzeUnchanged

\* the Analizar button of the voice modal: sendAudio starts a FileReader
SendAudio ==
    /\ modal = "voice"
    /\ ~isAnalyzing
    /\ started + reads < MaxInvocations
    /\ reads' = reads + 1
    /\ UNCHANGED <<apiKey, modal, isAnalyzing, inFlight, started>>
    /\ AnalyzeUnchanged

\* reader.onload: onTranscript(reader.result)
ReaderLoads ==
    /\ reads > 0
    /\ reads' = reads - 1
    /\ HandlerStarts("handleVoiceTranscript")
    /\ UNCHANGED <<apiKey, modal>>
    /\ AnalyzeUnchanged

\* the fetch an invocation awaits settles and the handler runs on: ok is a
\* success response (with foods, or with a transcription); otherwise the
\* response is a failure or the fetch threw
HandlerResumes ==
    /\ \E i \in Awaiting, ok \in BOOLEAN :
         LET inv == inFlight[i]
         IN  IF inv.awaits = "/api/analyze-voice" /\ ok
             THEN /\ inFlight' = [inFlight EXCEPT ![i].awaits = "/api/analyze-text"]
                  /\ UNCHANGED <<isAnalyzing, modal>>
             ELSE /\ inFlight' = [inFlight EXCEPT ![i].awaits = "none"]
                  /\ isAnalyzing' = FALSE
                  /\ modal' = IF ok /\ modal = ModalOf(inv.handler)
                              THEN "none" ELSE modal
    /\ UNCHANGED <<apiKey, reads, started>>
    /\ AnalyzeUnchanged

AnalyzeNext ==
    \/ OpenModal
    \/ CloseModal
    \/ ConfirmCapture
    \/ SubmitText
    \/ SendAudio
    \/ ReaderLoads
    \/ HandlerResumes

SpecAnalyze == AnalyzeInit /\ [][AnalyzeNext]_vars

----------------------------------------------------------------------------
(* The JPEG quality loop: after the image is drawn it is encoded, and      *)
(* encoded again at a lower quality while it exceeds the byte budget.      *)
(*   processBlob        camera-capture.tsx:910-922 (and 529-540)           *)
(*   processImageScale  camera-capture.tsx:56-71                           *)
(*                                                                         *)
(* quality is an IEEE double.  The double of value v is kept as the pair   *)
(* k, r with v = k * 0.05 + r * w exactly, where w = 2^-56 / 5 (so that    *)
(* 0.05 = 2^54 * w): k counts twentieths and r is the double's distance    *)
(* from that decimal.                                                      *)

Dbl(k, r) == [k |-> k, r |-> r]

\* the doubles the literals 0.6, 0.7, 0.1 and 0.15 denote
Lit06 == Dbl(12, 0 - 8)
Lit07 == Dbl(14, 0 - 16)
Lit01 == Dbl(2, 2)
Lit015 == Dbl(3, 0 - 2)

\* a > b on doubles
Greater(a, b) == a.k > b.k \/ (a.k = b.k /\ a.r > b.r)

\* the spacing of the doubles around k * 0.05 + r * w, in units of w, for
\* values from 0.0625 up to 1: 2^-53 from 0.5, 2^-54 from 0.25, 2^-55 from
\* 0.125, 2^-56 below
Ulp(k, r) ==
    IF k > 10 \/ (k = 10 /\ r >= 0) THEN 40
    ELSE IF k > 5 \/ (k = 5 /\ r >= 0) THEN 20
    ELSE IF k >= 3 THEN 10
    ELSE 5

\* the residue of k * 2^54 + r modulo m, for m dividing 80 (2^54 mod 80 = 64)
Residue(k, r, m) == (k * 64 + r) % m

\* a - b on doubles: the exact difference rounded to the nearest double,
\* ties to the even one; a difference below 0.0625 of doubles this close
\* is exact
DblMinus(a, b) ==
    LET k == a.k - b.k
        r == a.r - b.r
        u == Ulp(k, r)
        rem == Residue(k, r, u)
        lo == r - rem
        hi == r - rem + u
    IN  IF k < 2 THEN Dbl(k, r)
        ELSE IF 2 * rem < u THEN Dbl(k, lo)
        ELSE IF 2 * rem > u THEN Dbl(k, hi)
        ELSE IF Residue(k, lo, 2 * u) = 0 THEN Dbl(k, lo)
        ELSE Dbl(k, hi)

QualityResizers == {"processBlob", "processImageScale"}

MAX_FILE_KB == 180
MAX_FILE_SIZE_KB == 300

\* the byte budget of the routine, in KB
MaxFileKB(z) == IF z = "processBlob" THEN MAX_FILE_KB ELSE MAX_FILE_SIZE_KB

\* let quality = 0.6 (processBlob), 0.7 (processImageScale)
InitialQuality(z) == IF z = "processBlob" THEN Lit06 ELSE Lit07

\* the floor of the loop condition: quality > 0.15, quality > 0.1
QualityFloor(z) == IF z = "processBlob" THEN Lit015 ELSE Lit01

\* the sizes an encoding may have: around the budget, and far above it
EncodedSizes(z) ==
    {MaxFileKB(z) - 1, MaxFileKB(z), MaxFileKB(z) + 1, 2 * MaxFileKB(z)}

Encoding(q, kb) == [quality |-> q, sizeKB |-> kb]

\* sizeKB > MAX_FILE_KB && quality > 0.15
LoopCondition ==
    urlSizeKB > MaxFileKB(qresizer) /\ Greater(quality, QualityFloor(qresizer))

----------------------------------------------------------------------------
(* Specification SpecQuality: one image is encoded until the loop ends.    *)

QualityInit ==
    /\ ReplyIdle
    /\ RouteIdle
    /\ ExtractIdle
    /\ ImageIdle
    /\ CameraIdle
    /\ VoiceIdle
    /\ AnalyzeIdle
    /\ FlowIdle
    /\ UploadIdle
    /\ PageIdle
    /\ SettingsIdle
    /\ qresizer \in QualityResizers
    /\ quality = InitialQuality(qresizer)
    /\ urlSizeKB = 0
    /\ encoded = <<>>
    /\ resolved = 0
    /\ qpc = "drawn"

QualityUnchanged ==
    UNCHANGED <<replyVars, routeVars, extractVars, imageVars, cameraVars,
                voiceVars, analyzeVars,
                flowVars,
                uploadVars,
                pageVars,
                settingsVars>>

\* let dataUrl = canvas.toDataURL('image/jpeg', quality); let sizeKB = ...
FirstEncoding ==
    /\ qpc = "drawn"
    /\ \E kb \in EncodedSizes(qresizer) :
         /\ urlSizeKB' = kb
         /\ encoded' = Append(encoded, Encoding(quality, kb))
    /\ qpc' = "loop"
    /\ UNCHANGED <<qresizer, quality, resolved>>
    /\ QualityUnchanged

\* one pass of the loop body
Reencode ==
    /\ qpc = "loop"
    /\ LoopCondition
    /\ quality' = DblMinus(quality, Lit01)
    /\ \E kb \in EncodedSizes(qresizer) :
         /\ urlSizeKB' = kb
         /\ encoded' = Append(encoded, Encoding(quality', kb))
    /\ UNCHANGED <<qresizer, resolved, qpc>>
    /\ QualityUnchanged

\* the loop ends: resolve(dataUrl)
ResolveDataUrl ==
    /\ qpc = "loop"
    /\ ~LoopCondition
    /\ resolved' = Len(encoded)
    /\ qpc' = "resolved"
    /\ UNCHANGED <<qresizer, quality, urlSizeKB, encoded>>
    /\ QualityUnchanged

QualityNext == FirstEncoding \/ Reencode \/ ResolveDataUrl

SpecQuality == QualityInit /\ [][QualityNext]_vars

\* the loop is scheduled until it ends: it is straight-line code
FairQuality == SpecQuality /\ WF_vars(QualityNext)

----------------------------------------------------------------------------
(* The voice modality end to end: handleVoiceTranscript (page.tsx:249-294) *)
(* posts the recording to the transcription route, whose invocation is     *)
(* the one of SpecRoute, and goes on to the text-analysis route only with  *)
(* a transcript.                                                           *)

VoiceFlowInit ==
    /\ ReplyIdle
    /\ ExtractIdle
    /\ ImageIdle
    /\ CameraIdle
    /\ VoiceIdle
    /\ AnalyzeIdle
    /\ QualityIdle
    /\ UploadIdle
    /\ PageIdle
    /\ SettingsIdle
    /\ route \in VoiceRoutes
    /\ envKey \in {"", "env-key"}
    /\ hdrKey = "hdr-key"
    /\ payload \in Payloads(route)
    /\ pc = "idle"
    /\ modelIdx = 1
    /\ attempt = 1
    /\ lastError = ""
    /\ timer = 0
    /\ hang = FALSE
    /\ calls = <<>>
    /\ lastReply = Undef
    /\ resp = NoResp
    /\ flow = "transcribing"
    /\ textCalls = 0
    /\ alertMsg = ""

FlowUnchanged ==
    UNCHANGED <<replyVars, routeVars, extractVars, imageVars, cameraVars,
                voiceVars, analyzeVars, qualityVars,
                uploadVars,
                pageVars,
                settingsVars>>

\* the page's fetch of /api/analyze-voice rejects: catch { alert(...) }
TranscribeFetchFails ==
    /\ flow = "transcribing"
    /\ flow' = "finished"
    /\ alertMsg' = "Error al procesar."
    /\ UNCHANGED textCalls
    /\ FlowUnchanged

\* the route's response arrives: with success and a transcription the
\* handler posts it to /api/analyze-text, otherwise it shows the error
TranscribeResponds ==
    /\ flow = "transcribing"
    /\ pc = "done"
    /\ IF resp.success /\ Truthy(resp.transcription)
       THEN /\ textCalls' = textCalls + 1
            /\ flow' = "analyzing"
            /\ UNCHANGED alertMsg
       ELSE /\ alertMsg' = (IF resp.error # "" THEN resp.error
                            ELSE "No se pudo transcribir.")
            /\ flow' = "finished"
            /\ UNCHANGED textCalls
    /\ FlowUnchanged

\* the text-analysis fetch settles: a result with foods, a failure
\* response, or a rejected fetch
AnalyzeSettles ==
    /\ flow = "analyzing"
    /\ flow' = "finished"
    /\ alertMsg' \in {"", "No se pudo analizar.", "Error al procesar."}
    /\ UNCHANGED textCalls
    /\ FlowUnchanged

VoiceFlowNext ==
    \/ POST
    \/ FetchResolves
    \/ FetchRejects
    \/ AbortFires
    \/ TranscribeFetchFails
    \/ TranscribeResponds
    \/ AnalyzeSettles

SpecVoiceFlow == VoiceFlowInit /\ [][VoiceFlowNext]_vars

----------------------------------------------------------------------------
(* Image upload: handleFileUpload passes the chosen file to processImage,  *)
(* which decodes it (an Image element) and, in some revisions, converts    *)
(* HEIC/HEIF files to JPEG first (heic2any).  The revisions, all in        *)
(* camera-capture.tsx but the last:                                        *)
(*   UploadA        processImage 14-80, handleFileUpload 181-205           *)
(*   UploadB        446-577, 656-672                                       *)
(*   UploadC        804-863, 1010-1032                                     *)
(*   UploadD        1212-1282, 1379-1410                                   *)
(*   UploadCompact  settings-modal.tsx:360-398, 437-444                    *)

Uploaders == {"UploadA", "UploadB", "UploadC", "UploadD", "UploadCompact"}

\* file names by their lower-cased ending, and declared media types
Endings == {".heic", ".heif", ".jpg"}
MediaTypes ==
    {"", "image/jpeg", "image/heic", "image/heif", "image/heic-sequence"}

Files == [ending : Endings, type : MediaTypes]

HeicEndings == {".heic", ".heif"}

\* isHeicFile(file)
isHeicFile(u, f) ==
    \/ f.ending \in HeicEndings
    \/ f.type \in {"image/heic", "image/heif"}
    \/ u # "UploadCompact" /\ f.type = "image/heic-sequence"

\* UploadD: validTypes.includes(file.type) || isHeic
validTypes == {"image/jpeg", "image/heic", "image/heif"}
Accepted(u, f) ==
    u = "UploadD" => (f.type \in validTypes \/ f.ending \in HeicEndings)

\* the revisions that convert before decoding
ConvertsFirst(u) == u \in {"UploadC", "UploadCompact"}

\* the failure shown when the conversion, or the decode of its result, fails
\* (UploadB: the message 'HEIC no soportado...'; UploadC: showHeicError on
\* HEIC_NOT_SUPPORTED alone; UploadCompact: one alert for every error)
ConversionFailure(u) ==
    IF u = "UploadCompact" THEN "generic" ELSE "heicError"
ConvertedDecodeFailure(u) ==
    IF u = "UploadB" THEN "heicError" ELSE "generic"

----------------------------------------------------------------------------
(* Specification SpecUpload: one file is chosen and processed; decoding    *)
(* and conversion each succeed or fail.                                    *)

UploadInit ==
    /\ ReplyIdle
    /\ RouteIdle
    /\ ExtractIdle
    /\ ImageIdle
    /\ CameraIdle
    /\ VoiceIdle
    /\ AnalyzeIdle
    /\ QualityIdle
    /\ FlowIdle
    /\ PageIdle
    /\ SettingsIdle
    /\ uploader \in Uploaders
    /\ file \in Files
    /\ steps = <<>>
    /\ capturedImage = FALSE
    /\ shown = "none"
    /\ upc = "selected"

UploadUnchanged ==
    UNCHANGED <<replyVars, routeVars, extractVars, imageVars, cameraVars,
                voiceVars, analyzeVars, qualityVars, flowVars,
                pageVars,
                settingsVars>>

\* handleFileUpload and processImage up to the first await
handleFileUpload ==
    /\ upc = "selected"
    /\ IF ~Accepted(uploader, file)
       THEN /\ shown' = "generic"
            /\ upc' = "done"
            /\ UNCHANGED steps
       ELSE IF ConvertsFirst(uploader) /\ isHeicFile(uploader, file)
       THEN /\ steps' = Append(steps, "convert")
            /\ upc' = "converting"
            /\ UNCHANGED shown
       ELSE /\ steps' = Append(steps, "decodeOriginal")
            /\ upc' = "decodingOriginal"
            /\ UNCHANGED shown
    /\ UNCHANGED <<uploader, file, capturedImage>>
    /\ UploadUnchanged

\* img.onload: the image is drawn and encoded, processImage resolves and
\* the handler sets capturedImage
ImageLoads ==
    /\ upc \in {"decodingOriginal", "decodingConverted"}
    /\ capturedImage' = TRUE
    /\ upc' = "done"
    /\ UNCHANGED <<uploader, file, steps, shown>>
    /\ UploadUnchanged

\* img.onerror
ImageFails ==
    /\ upc \in {"decodingOriginal", "decodingConverted"}
    /\ IF upc = "decodingOriginal" /\ uploader = "UploadB"
          /\ isHeicFile(uploader, file)
       THEN /\ steps' = Append(steps, "convert")
            /\ upc' = "converting"
            /\ UNCHANGED shown
       ELSE /\ shown' = (IF upc = "decodingConverted"
                         THEN ConvertedDecodeFailure(uploader) ELSE "generic")
            /\ upc' = "done"
            /\ UNCHANGED steps
    /\ UNCHANGED <<uploader, file, capturedImage>>
    /\ UploadUnchanged

\* convertHeicToJpeg resolves with a blob, which is decoded next
ConversionSucceeds ==
    /\ upc = "converting"
    /\ steps' = Append(steps, "decodeConverted")
    /\ upc' = "decodingConverted"
    /\ UNCHANGED <<uploader, file, capturedImage, shown>>
    /\ UploadUnchanged

\* convertHeicToJpeg throws: processImage rejects and the handler's catch
\* shows the failure
ConversionFails ==
    /\ upc = "converting"
    /\ steps' = Append(steps, "conversionFailed")
    /\ shown' = ConversionFailure(uploader)
    /\ upc' = "done"
    /\ UNCHANGED <<uploader, file, capturedImage>>
    /\ UploadUnchanged

UploadNext ==
    \/ handleFileUpload
    \/ ImageLoads
    \/ ImageFails
    \/ ConversionSucceeds
    \/ ConversionFails

SpecUpload == UploadInit /\ [][UploadNext]_vars

----------------------------------------------------------------------------
(* Claims about the returned items and totals (SpecReply).                 *)

\* the items of a successful response that carries a list
ReturnedItems ==
    IF rpc = "done" /\ rresp.success /\ IsArray(rresp.foods)
    THEN {rresp.foods.items[i] : i \in 1..Len(rresp.foods.items)}
    ELSE {}

\* netCarbs == max(0, carbs - fiber) on the values of one returned item
NetCarbsConsistent(f) ==
    /\ IsNumber(f.netCarbs) /\ IsNumber(f.carbs) /\ IsNumber(f.fiber)
    /\ f.netCarbs.n = (IF f.carbs.n - f.fiber.n > 0 THEN f.carbs.n - f.fiber.n ELSE 0)

\* C1: every food item of a successful response of the text-analysis and
\* photo-analysis routes satisfies netCarbs == max(0, carbs - fiber) on the
\* carbs and fiber of that same returned item, whatever the model replied.
C1_NetCarbsOfReturnedItems ==
    \A f \in ReturnedItems : NetCarbsConsistent(f)

RECURSIVE SumField(_, _)
\* the sum of one numeric field over a list of items
SumField(items, field) ==
    IF items = <<>> THEN 0
    ELSE Head(items)[field].n + SumField(Tail(items), field)

TotalFields == {"calories", "carbs", "protein", "fat", "fiber", "netCarbs"}

\* C2: in every successful analysis response, totalNutrition equals the
\* field-wise sum (calories, carbs, protein, fat, fiber, netCarbs) of the
\* food items of that response, whether or not the model reply supplied
\* its own totalNutrition.
C2_TotalsAreFieldwiseSums ==
    (rpc = "done" /\ rresp.success /\ IsArray(rresp.foods)
        /\ rroute \in NormalizingRoutes)
    => \A field \in TotalFields :
          rresp.totalNutrition[field] = Num(SumField(rresp.foods.items, field))

\* C6: a route returns success only if the parsed reply has a foods value
\* that is a non-empty list; an empty list, an absent foods or a foods that
\* is no list never yields success.
C6_SuccessOnlyForNonEmptyList ==
    (rpc = "done" /\ rresp.success)
    => /\ rreply.t = "object"
       /\ IsArray(rreply.foods)
       /\ Len(rreply.foods.items) > 0

\* C8: normalization is idempotent: applying the route's per-item
\* normalization to an item it already normalized returns the same item,
\* in the text route (TextB) and the multi-model photo route (PhotoM).
C8_NormalizationIdempotent ==
    rroute \in {"TextB", "PhotoM"}
    => \A f \in ReturnedItems : NormalizeItem(rroute, f) = f

----------------------------------------------------------------------------
(* Claims about one invocation (SpecRoute).                                *)

\* the failure every route returns when no credential is configured
MissingCredential == Failure("API key no configurada")

\* C3: for each modality, an invocation made with no credential configured
\* ends in the missing-credential failure and makes zero provider calls,
\* whatever the payload is (an absent or empty payload included).
C3_NoCredentialNoCall ==
    ApiKey(envKey, hdrKey) = ""
    => /\ calls = <<>>
       /\ pc = "done" => resp = MissingCredential

\* the outcome of the latest provider call
LastOutcome == calls[Len(calls)].outcome

CallsTo(m) == {i \in 1..Len(calls) : calls[i].model = m}

\* every call to the first candidate model was answered with HTTP 429
FirstModelRateLimited ==
    /\ CallsTo(VISION_MODELS[1]) # {}
    /\ \A i \in CallsTo(VISION_MODELS[1]) : calls[i].outcome = Responded(429)

\* a reply whose foods is a non-empty list
ValidFoodsReply(reply) ==
    /\ reply.t = "object"
    /\ IsArray(reply.foods)
    /\ Len(reply.foods.items) > 0

\* the second candidate model answered last, with a valid foods reply
SecondModelAnsweredValid ==
    /\ CallsTo(VISION_MODELS[2]) # {}
    /\ calls[Len(calls)].model = VISION_MODELS[2]
    /\ LastOutcome.ev = "response" /\ IsOk(LastOutcome.status)
    /\ ValidFoodsReply(lastReply)

\* C4: photo analysis (PhotoM): when every call to the first candidate
\* vision model returns HTTP 429 and the second candidate model returns a
\* valid foods reply, the invocation returns success carrying the second
\* model's normalized result, and no error.  That is: an invocation whose
\* calls to the first model were all answered 429 does not return before
\* it has asked the second model, and once the second model has answered
\* with a valid foods reply the invocation returns that reply, normalized.
C4_FallbackToSecondModel ==
    (route = "PhotoM" /\ pc = "done" /\ FirstModelRateLimited)
    => /\ CallsTo(VISION_MODELS[2]) # {}
       /\ SecondModelAnsweredValid
          => LET foods == NormalizeFoods("PhotoM", lastReply.foods.items)
             IN  /\ resp.success
                 /\ resp.error = ""
                 /\ resp.foods = Array(foods)
                 /\ resp.totalNutrition =
                       TotalNutrition("PhotoM", lastReply.totalNutrition, foods)

\* both attempts on the first model were answered 429 and the second model's
\* reply was returned as a success
C4_Witness ==
    /\ route = "PhotoM" /\ pc = "done"
    /\ Len(calls) = MAX_ATTEMPTS + 1
    /\ FirstModelRateLimited /\ SecondModelAnsweredValid
    /\ resp.success
    /\ Len(resp.foods.items) = 2

\* C5: a provider call that never responds is aborted at its configured
\* deadline, whatever the route (text analysis, vision analysis,
\* transcription): an invocation whose provider stays silent can always
\* go on through the abort of its call.
C5_SilentProviderIsAborted ==
    (pc = "awaiting" /\ hang) => ENABLED AbortFires

\* the failure class a user-facing message stands for
ClassOf(msg) ==
    CASE msg = "API Key invalida" -> "InvalidCredential"
      [] msg = "Limite de API alcanzado" -> "RateLimited"
      [] msg \in {"Imagen no valida", "Imagen no procesada"} -> "InvalidRequest"
      [] msg \in {"Error temporal del servidor de IA", "Error 500", "Error 503"} ->
           "ProviderUnavailable"
      [] OTHER -> "Unclassified"

\* the failure class the HTTP status mapping gives a provider outcome
ExpectedClass(outcome) ==
    CASE outcome.ev = "network" -> "ProviderUnavailable"
      [] outcome.ev = "response" /\ outcome.status \in {401, 403} -> "InvalidCredential"
      [] outcome.ev = "response" /\ outcome.status = 429 -> "RateLimited"
      [] outcome.ev = "response" /\ outcome.status = 400 -> "InvalidRequest"
      [] outcome.ev = "response" /\ outcome.status >= 500 -> "ProviderUnavailable"
      [] OTHER -> "None"

\* C10: in every route, provider HTTP outcomes map to distinct failure
\* classes: 401 or 403 to invalid-credential, 429 to rate-limited, 400 to
\* invalid-request, a status >= 500 or a network failure to
\* provider-unavailable.
C10_StatusMapping ==
    (pc = "done" /\ calls # <<>> /\ ExpectedClass(LastOutcome) # "None")
    => /\ ~resp.success
       /\ ClassOf(resp.error) = ExpectedClass(LastOutcome)

----------------------------------------------------------------------------
(* Claims about response extraction (SpecExtract).                         *)

\* the span from the first "{" to the last "}" of a text
FirstToLastBrace(s) ==
    [from |-> Least(Positions(s, "{")), to |-> Greatest(Positions(s, "}"))]

\* the extractor parsed exactly the embedded object, from the region that
\* spans the first "{" to the last "}" of the fence-stripped text
ExtractedEmbeddedObject ==
    /\ result = JSONparse(parts.object)
    /\ jsonMatch = FirstToLastBrace(stripped)

\* C7 as stated: for a model reply consisting of leading prose, a markdown
\* code fence (with or without the json tag) around one JSON object with a
\* "foods" key, and trailing prose, the extractor parses exactly the
\* embedded object (content unchanged); the located region is the span from
\* the first '{' to the last '}' of the fence-stripped text.
C7_ExtractsEmbeddedObject ==
    xpc = "extracted" => ExtractedEmbeddedObject

\* the reply's prose and strings leave the object's braces and text alone:
\* no '{' in the leading prose, no '}' in the trailing prose, no
\* code-fence marker inside a string of the object
ProseKeepsClear(p) ==
    /\ "{" \notin Range(p.lead)
    /\ "}" \notin Range(p.trail)
    /\ "qtick" \notin Range(p.object)

\* C7 (amended): for a model reply consisting of leading prose without '{',
\* a markdown code fence (with or without the json tag) around one JSON
\* object with a "foods" key and no code-fence marker in its strings, and
\* trailing prose without '}', the extractor parses exactly the embedded
\* object (content unchanged); the located region is the span from the
\* first '{' to the last '}' of the fence-stripped text.
C7_ExtractsEmbeddedObjectClearProse ==
    (xpc = "extracted" /\ ProseKeepsClear(parts)) => ExtractedEmbeddedObject

\* a nested object between prose on both sides, in a tagged fence, was
\* parsed as it stands
C7_Witness ==
    /\ xpc = "extracted"
    /\ parts.lead = <<"word", "}">>
    /\ parts.trail = <<"{", "word">>
    /\ parts.tagged /\ parts.breaks
    /\ parts.object = <<"{", "foods", "{", "item", "}", "}">>
    /\ result = [t |-> "object", members |-> parts.object]
    /\ jsonMatch.to - jsonMatch.from + 1 = Len(parts.object)

----------------------------------------------------------------------------
(* Claims about image normalization (SpecImage).                           *)

Larger(a, b) == IF a >= b THEN a ELSE b

\* C9: for every input image with positive width and height, the output
\* width and height are each <= the maximum edge length (800 in
\* processBlob), neither exceeds the input's (no upscaling), and when the
\* input's longer edge exceeds the maximum the output's longer edge equals
\* the maximum.
C9_OutputWithinMaxEdge ==
    ipc = "drawn"
    => /\ canvas.width <= MaxEdge(resizer)
       /\ canvas.height <= MaxEdge(resizer)
       /\ canvas.width <= img.width
       /\ canvas.height <= img.height
       /\ Larger(img.width, img.height) > MaxEdge(resizer)
          => Larger(canvas.width, canvas.height) = MaxEdge(resizer)

\* an 8000 x 6000 image was sized to 800 x 600 by processBlob
C9_Witness ==
    /\ ipc = "drawn"
    /\ resizer = "processBlob"
    /\ img = Size(8000, 6000)
    /\ canvas = Size(MAX_SIZE, 600)

----------------------------------------------------------------------------
(* Further claims about one invocation (SpecRoute).                        *)

\* C11: every failure response contains only a fixed user-facing message:
\* no text from the provider's response body, from the raw model reply or
\* from a caught exception's message is included in a response.
C11_FixedMessagesOnly ==
    (pc = "done" /\ ~resp.success) => resp.detail = "none"

\* the credential the per-request override rule sends: the header when
\* present, the deployment's key otherwise
OverrideKey == IF hdrKey # "" THEN hdrKey ELSE envKey

\* C14: when both a deployment-level credential (GROQ_API_KEY) and a
\* per-request credential (X-Groq-API-Key) are present, the per-request
\* override is the credential sent to the provider; when only one is
\* present, that one is sent.
C14_OverrideKeyIsSent ==
    \A i \in 1..Len(calls) : calls[i].key = OverrideKey

IsCredentialRejection(outcome) ==
    outcome.ev = "response" /\ outcome.status \in {401, 403}

\* C16: photo analysis (PhotoM): as soon as any vision attempt returns HTTP
\* 401 or 403, the invocation returns the invalid-credential failure and
\* makes no further provider call.
C16_CredentialRejectionEndsInvocation ==
    route = "PhotoM"
    => \A i \in 1..Len(calls) :
          IsCredentialRejection(calls[i].outcome)
          => /\ i = Len(calls)
             /\ pc = "done"
             /\ resp = Failure("API Key invalida")

\* the second attempt, after a 429, was answered 401: the invocation ended
C16_Witness ==
    /\ route = "PhotoM" /\ pc = "done"
    /\ Len(calls) = 2
    /\ calls[1].outcome = Responded(429)
    /\ calls[2].outcome = Responded(401)
    /\ resp = Failure("API Key invalida")

\* the transient classes: RateLimited, InvalidRequest, ProviderUnavailable
IsTransientFailure(outcome) ==
    /\ outcome.ev = "response"
    /\ outcome.status \in {429, 400} \/ outcome.status >= 500

\* C17: photo analysis (PhotoM): a further provider call is made after a
\* failed attempt only if that attempt failed with a transient class (429,
\* 400, >= 500); an attempt that fails with any other class, in particular
\* a reply that cannot be parsed or an empty foods list, ends the
\* invocation with no further provider call.
C17_OnlyTransientFailuresRetry ==
    route = "PhotoM"
    => \A i \in 1..(Len(calls) - 1) : IsTransientFailure(calls[i].outcome)

ModelIndex(m) == CHOOSE k \in 1..Len(VISION_MODELS) : VISION_MODELS[k] = m

\* C18: photo analysis (PhotoM) iterates the candidate models in list order
\* with at most 2 attempts per model: one invocation makes at most
\* 2 x |VISION_MODELS| provider calls, and no call to a later model happens
\* before 2 attempts on every earlier model have failed.
C18_ModelsInOrderTwoAttempts ==
    route = "PhotoM"
    => /\ Len(calls) <= MAX_ATTEMPTS * Len(VISION_MODELS)
       /\ \A k \in 1..Len(VISION_MODELS) :
             Cardinality(CallsTo(VISION_MODELS[k])) <= MAX_ATTEMPTS
       /\ \A i \in 1..Len(calls) :
             \A k \in 1..(ModelIndex(calls[i].model) - 1) :
                LET earlier == {j \in CallsTo(VISION_MODELS[k]) : j < i}
                IN  /\ Cardinality(earlier) = MAX_ATTEMPTS
                    /\ \A j \in earlier :
                          /\ calls[j].outcome # Pending
                          /\ ~IsCredentialRejection(calls[j].outcome)

\* every (model, attempt) pair was tried
C18_Witness ==
    /\ route = "PhotoM" /\ pc = "done"
    /\ Len(calls) = MAX_ATTEMPTS * Len(VISION_MODELS)
    /\ calls[2].model = VISION_MODELS[1]
    /\ calls[3].model = VISION_MODELS[2]
    /\ ~resp.success

\* every (model, attempt) pair was tried and the last one failed too
AllAttemptsFailed ==
    /\ route = "PhotoM" /\ pc = "done"
    /\ Len(calls) = MAX_ATTEMPTS * Len(VISION_MODELS)
    /\ MultiOutcome(LastOutcome, lastReply).kind = "continue"

\* C19: photo analysis (PhotoM): when every (model, attempt) pair has
\* failed, the failure response carries the message of the last failed
\* attempt in iteration order (not the first, and not a generic message
\* unless no error was recorded).
C19_LastErrorIsReported ==
    AllAttemptsFailed
    => resp = Failure(MultiOutcome(LastOutcome, lastReply).lastError)

\* the first attempt was rate limited, the last was refused as a bad
\* request: the response carries the last attempt's message
C19_Witness ==
    /\ AllAttemptsFailed
    /\ calls[1].outcome = Responded(429)
    /\ LastOutcome = Responded(400)
    /\ resp.error = "Imagen no procesada"

\* C20: photo analysis: when a vision call's deadline expires, the failure
\* finally returned to the caller is the timeout failure (the timeout
\* message), not a failure of another class such as malformed response.
C20_TimeoutIsReported ==
    (route \in PhotoRoutes /\ pc = "done" /\ calls # <<>>
        /\ LastOutcome = TimedOut)
    => resp = Failure("Tiempo de espera agotado")

----------------------------------------------------------------------------
(* Claims about camera capture (SpecCamera).                               *)

\* C12: under every interleaving of camera acquisition (getUserMedia
\* resolving), camera switch and component teardown, every acquired camera
\* stream has its tracks stopped once the component is unmounted or the
\* stream is replaced; no acquired stream is left running with no
\* reference to it.
C12_NoStreamLeftRunning ==
    \A i \in 1..Len(tracks) :
        tracks[i] = "live" => (camMounted /\ streamRef = i)

----------------------------------------------------------------------------
(* Claims about voice capture (SpecVoice).                                 *)

\* C13: on every exit path of the voice input (recording stopped by the
\* user, the modal closed while recording, component teardown) the
\* microphone stream acquired by startRecording has its tracks stopped: a
\* stream with running tracks is the one being recorded by the open
\* component.
C13_MicStoppedOnEveryExit ==
    \A i \in 1..Len(micTracks) :
        micTracks[i] = "live" =>
            (voiceOpen /\ isRecording /\ mediaRecorderRef = i)

----------------------------------------------------------------------------
(* Claims about the page's handlers (SpecAnalyze).                         *)

\* C15: concurrent invocations are independent: the completion of one
\* invocation never clears isAnalyzing while another is still in flight,
\* so isAnalyzing is true whenever any invocation is in flight.
C15_BusyWhileAnyInFlight == Awaiting # {} => isAnalyzing

----------------------------------------------------------------------------
(* Further claims about the returned items (SpecReply).                    *)

\* the nutrient fields of a food item
NutrientFields == {"calories", "carbs", "protein", "fat", "fiber"}

\* C22: in every successful analysis response, each food item's calories,
\* carbs, protein, fat and fiber are numbers >= 0 and servingSize is a
\* number > 0, for every model reply including replies with negative,
\* non-numeric or missing fields.
C22_ItemFieldsNonNegative ==
    \A f \in ReturnedItems :
        /\ \A k \in NutrientFields : IsNumber(f[k]) /\ f[k].n >= 0
        /\ IsNumber(f.servingSize) /\ f.servingSize.n > 0

----------------------------------------------------------------------------
(* Further claims about image normalization (SpecImage).                   *)

\* C30: image normalization never produces a degenerate canvas: for every
\* input image with width >= 1 and height >= 1 (any aspect ratio), the
\* computed output width and height are both >= 1.
C30_CanvasNotDegenerate ==
    ipc = "drawn" => (canvas.width >= 1 /\ canvas.height >= 1)

----------------------------------------------------------------------------
(* Claims about the JPEG quality loop (SpecQuality).                       *)

\* the encodings that meet the routine's byte budget
MeetsBudget == {i \in 1..Len(encoded) : encoded[i].sizeKB <= MaxFileKB(qresizer)}

\* C23: starting at the initial quality and decrementing by 0.1 while the
\* encoded size exceeds the byte budget, the loop returns the first
\* encoding that meets the budget and never encodes at a quality below the
\* floor (0.15 in processBlob); when the budget is still exceeded at the
\* floor the image is returned rather than an error.
C23_QualityLoop ==
    /\ \A i \in 1..Len(encoded) :
         ~Greater(QualityFloor(qresizer), encoded[i].quality)
    /\ qpc = "resolved" =>
         /\ resolved = Len(encoded)
         /\ MeetsBudget # {} => MeetsBudget = {resolved}

----------------------------------------------------------------------------
(* Claims about the voice modality end to end (SpecVoiceFlow).             *)

\* a transcript that is absent, empty or whitespace-only
Blank(v) == ~Truthy(v) \/ Trim(v) = EmptyStr

\* the provider answered the transcription call with a non-blank text
TranscriptionSucceeded ==
    /\ pc = "done"
    /\ calls # <<>>
    /\ LastOutcome.ev = "response" /\ IsOk(LastOutcome.status)
    /\ ~Blank(lastReply)

\* C21: the text-analysis call is made only after transcription returned
\* success with a non-blank transcript; a transcription failure or a blank
\* transcript ends the invocation with a failure and zero text-analysis
\* calls, and the blank-transcript failure is distinct from the
\* transport-error failure.
C21_TextAnalysisOnlyAfterTranscript ==
    /\ textCalls <= 1
    /\ textCalls = 1 =>
         (TranscriptionSucceeded /\ resp.success /\ ~Blank(resp.transcription))
    /\ (pc = "done" /\ ~TranscriptionSucceeded) => ~resp.success
    /\ (flow # "transcribing" /\ ~TranscriptionSucceeded) =>
         (textCalls = 0 /\ flow = "finished" /\ alertMsg # "")
    /\ (pc = "done" /\ calls # <<>>) =>
         (resp.error = "No pude entender el audio"
            <=> (/\ LastOutcome.ev = "response"
                 /\ IsOk(LastOutcome.status)
                 /\ Blank(lastReply)))

\* a whitespace-only transcript ended the invocation with its own failure
\* and without a text-analysis call
C21_Witness ==
    /\ flow = "finished"
    /\ pc = "done"
    /\ lastReply = BlankStr
    /\ textCalls = 0
    /\ alertMsg = "No pude entender el audio"

----------------------------------------------------------------------------
(* Claims about image upload (SpecUpload).                                 *)

\* the file's name ends in .heic/.heif or its declared type is a HEIC/HEIF
\* media type
HeicByNameOrType(f) ==
    \/ f.ending \in HeicEndings
    \/ f.type \in {"image/heic", "image/heif", "image/heic-sequence"}

Did(step) == \E i \in 1..Len(steps) : steps[i] = step

\* C24: a file is treated as HEIC/HEIF exactly when its name ends in
\* .heic/.heif or its declared type is a HEIC/HEIF media type; for such a
\* file a failed conversion ends processing with the format-unsupported
\* failure shown to the user, and no generic decode of the original file is
\* attempted and no captured image is set.
C24_HeicConversionFailure ==
    /\ (upc # "selected" /\ steps # <<>>) =>
         (steps[1] = "convert" <=> HeicByNameOrType(file))
    /\ Did("conversionFailed") =>
         /\ upc = "done"
         /\ shown = "heicError"
         /\ ~Did("decodeOriginal")
         /\ ~capturedImage

----------------------------------------------------------------------------
(* The page's meal register: KetoCounterApp (page.tsx:69-87, 138-392).     *)
(* A date is a local calendar day and an hour of that day; minutes are     *)
(* left out. The createdAt field of a meal is never read and is left out.  *)

\* the local days are 1..MaxDay; the page is opened on day MaxDay (today)
MaxDay == 3
\* daylight saving time starts on local day DstDay, at 02:00
DstDay == 2
\* at most MaxAdds items are turned into meals
MaxAdds == 2
\* at most MaxRuns analysis results are shown
MaxRuns == 1

\* time zones: the standard offset from UTC in hours, and whether the zone
\* observes daylight saving time (UTC, Los Angeles, Madrid)
Zones ==
    {[std |-> 0, dst |-> FALSE], [std |-> 0 - 8, dst |-> TRUE],
     [std |-> 1, dst |-> TRUE]}
\* the hour of the day at which the page is opened
StartHours == {2, 16}

\* the offset of local time from UTC, in hours
Offset(z, date) ==
    IF z.dst /\ (date.day > DstDay \/ (date.day = DstDay /\ date.hour >= 3))
    THEN z.std + 1
    ELSE z.std

\* newDate.setDate(newDate.getDate() + delta): the same local time on another
\* day; a local time that the start of daylight saving skips moves on an hour
SetDate(z, date, delta) ==
    [day |-> date.day + delta,
     hour |-> IF z.dst /\ date.day + delta = DstDay /\ date.hour = 2
              THEN 3 ELSE date.hour]

\* getStorageKey: date.toISOString().split('T')[0] is the calendar day of the
\* date in UTC (the constant prefix of the key is left out)
getStorageKey(z, date) ==
    (date.day * 24 + date.hour - Offset(z, date)) \div 24

StorageKeys == 0..(MaxDay + 1)

\* the fields of a meal that hold JavaScript values
ValueFields ==
    {"name", "calories", "carbs", "protein", "fat", "fiber", "netCarbs"}

\* JSON.parse(JSON.stringify(v)): NaN is written as null
Json(v) == IF v = NaN THEN Null ELSE v

JsonMeals(ms) ==
    [i \in 1..Len(ms) |->
        [k \in DOMAIN ms[i] |->
            IF k \in ValueFields THEN Json(ms[i][k]) ELSE ms[i][k]]]

\* loadMeals: the list stored under the key of the date ([] when none is)
loadMeals(store, z, date) == store[getStorageKey(z, date)]

\* saveMeals: the list is written under the key of the date
saveMeals(store, z, date, ms) ==
    [store EXCEPT ![getStorageKey(z, date)] = JsonMeals(ms)]

\* a + b of the totals: null counts as 0
TotalPlus(a, b) ==
    IF a.t = "string" \/ b.t = "string" THEN Stringified
    ELSE Plus(IF a = Null THEN Num(0) ELSE a, IF b = Null THEN Num(0) ELSE b)

\* meals.reduce(...) from the zero totals, left to right
RECURSIVE Totals(_)
Totals(ms) ==
    IF ms = <<>> THEN [k \in TotalFields |-> Num(0)]
    ELSE LET acc == Totals(SubSeq(ms, 1, Len(ms) - 1))
         IN  [k \in TotalFields |-> TotalPlus(acc[k], ms[Len(ms)][k])]

\* the totals the page renders
totals == Totals(meals)

\* netCarbs: Math.max(0, (f.carbs || 0) - (f.fiber || 0))
NetCarbsOf(f) ==
    MathMax(Num(0), Minus(Or(f.carbs, Num(0)), Or(f.fiber, Num(0))))

\* the three analysis handlers and the routes they fetch
Modalities == {"photo", "voice", "text"}
RoutesOf(m) == IF m = "photo" THEN PhotoRoutes ELSE TextRoutes

\* an item whose carbs the model wrote as words
WordyItem == [HuevoFrito EXCEPT !.carbs = ModelStr]
\* the food lists of the model replies
ShownFoods == {<<HuevoFrito, WordyItem>>}

\* the foods a handler shows: the items as the route returned them, with
\* netCarbs overwritten (page.tsx:232-235, 276-279, 313-316)
ReceivedFoods(r, items) ==
    [i \in 1..Len(items) |->
        [NormalizeItem(r, items[i]) EXCEPT
            !.netCarbs = NetCarbsOf(NormalizeItem(r, items[i]))]]

\* the meal handleAddFood builds from item i of the shown result; run, item,
\* modality and day are history fields: where the meal came from
NewMeal(res, i, n, date) ==
    LET food == res.foods[i]
    IN  [id |-> n,
         name |-> food.name,
         calories |-> Or(food.calories, Num(0)),
         carbs |-> Or(food.carbs, Num(0)),
         protein |-> Or(food.protein, Num(0)),
         fat |-> Or(food.fat, Num(0)),
         fiber |-> Or(food.fiber, Num(0)),
         netCarbs |-> NetCarbsOf(food),
         source |-> "photo",
         run |-> res.run, item |-> i, modality |-> res.modality,
         day |-> date.day]

\* a meal stored by an earlier visit, on the day the page is opened
StoredMeal ==
    [id |-> 0, name |-> ModelStr, calories |-> Num(2), carbs |-> Num(2),
     protein |-> Num(1), fat |-> Num(1), fiber |-> Num(1),
     netCarbs |-> Num(1), source |-> "photo",
     run |-> 0, item |-> 1, modality |-> "photo", day |-> MaxDay]

\* localStorage when the page is opened
StoredBefore(z, date) ==
    [k \in StorageKeys |->
        IF k = getStorageKey(z, date) THEN <<StoredMeal>> ELSE <<>>]

\* what a number input hands to Number(e.target.value)
EditValues == {Num(0)}
EditFields == {"carbs", "fiber"}

\* the argument with which handleAddAllFoods is called: none, as the onAddAll
\* prop is typed (camera-capture.tsx:1770), or the click event, as the button
\* calls it (camera-capture.tsx:1945)
ClickEvent == EmptyObject
AddAllArguments == {Undef, ClickEvent}

PageInit ==
    /\ ReplyIdle
    /\ RouteIdle
    /\ ExtractIdle
    /\ ImageIdle
    /\ CameraIdle
    /\ VoiceIdle
    /\ AnalyzeIdle
    /\ QualityIdle
    /\ FlowIdle
    /\ UploadIdle
    /\ SettingsIdle
    /\ zone \in Zones
    /\ \E h \in StartHours : currentDate = [day |-> MaxDay, hour |-> h]
    /\ storage = StoredBefore(zone, currentDate)
    /\ meals = <<>>
    /\ loading = TRUE
    /\ analysisResult = Null
    /\ showResult = FALSE
    /\ editingMeal = Null
    /\ showEditModal = FALSE
    /\ runs = 0
    /\ converted = <<>>
    /\ lastClick = "none"

PageUnchanged ==
    UNCHANGED <<replyVars, routeVars, extractVars, imageVars, cameraVars,
                voiceVars, analyzeVars, qualityVars, flowVars, uploadVars,
                settingsVars>>

\* nothing covers the register: the page is loaded and neither the result
\* view nor the edit modal is shown
RegisterShown == ~loading /\ ~showResult /\ ~showEditModal

\* the mount effect (page.tsx:158-170), then the save effect of the render
\* that follows it (172-176)
Mount ==
    /\ loading
    /\ meals' = loadMeals(storage, zone, currentDate)
    /\ loading' = FALSE
    /\ storage' = saveMeals(storage, zone, currentDate, meals')
    /\ lastClick' = "mount"
    /\ UNCHANGED <<analysisResult, showResult, editingMeal, showEditModal,
                   currentDate, zone, runs, converted>>
    /\ PageUnchanged

\* handlePhotoCapture, handleVoiceTranscript or handleTextAnalyze receives a
\* successful response with foods (page.tsx:230-238, 275-282, 312-319)
ResultArrives ==
    /\ RegisterShown
    /\ runs < MaxRuns
    /\ \E m \in Modalities, items \in ShownFoods : \E r \in RoutesOf(m) :
           analysisResult' =
               [t |-> "result", foods |-> ReceivedFoods(r, items),
                modality |-> m, run |-> runs + 1]
    /\ showResult' = TRUE
    /\ runs' = runs + 1
    /\ lastClick' = "other"
    /\ UNCHANGED <<meals, editingMeal, showEditModal, currentDate, storage,
                   loading, zone, converted>>
    /\ PageUnchanged

\* the meals handleAddFood appends for the items at the positions in idx
RECURSIVE Added(_, _, _, _)
Added(res, idx, n, date) ==
    IF idx = <<>> THEN <<>>
    ELSE <<NewMeal(res, Head(idx), n + 1, date)>>
             \o Added(res, Tail(idx), n + 1, date)

\* Agregar on one item of the result view: handleAddFood (page.tsx:330-344),
\* then the save effect
handleAddFood ==
    /\ showResult /\ analysisResult # Null
    /\ Len(converted) < MaxAdds
    /\ \E i \in 1..Len(analysisResult.foods) :
           /\ meals' = meals \o Added(analysisResult, <<i>>, Len(converted),
                                      currentDate)
           /\ converted' = Append(converted, <<analysisResult.run, i>>)
    /\ storage' = saveMeals(storage, zone, currentDate, meals')
    /\ lastClick' = "addOne"
    /\ UNCHANGED <<analysisResult, showResult, editingMeal, showEditModal,
                   currentDate, loading, zone, runs>>
    /\ PageUnchanged

\* Agregar Todo: handleAddAllFoods (page.tsx:346-352), then the save effect.
\* With the click event as argument toAdd is the event, toAdd.forEach is not a
\* function and the handler throws before it changes anything.
handleAddAllFoods ==
    /\ showResult /\ analysisResult # Null
    /\ lastClick' = "addAll"
    /\ \E foods \in AddAllArguments :
           IF Truthy(foods)
           THEN UNCHANGED <<meals, analysisResult, showResult, storage,
                            converted>>
           ELSE LET n == Len(analysisResult.foods)
                    idx == [i \in 1..n |-> i]
                IN  /\ Len(converted) + n <= MaxAdds
                    /\ meals' = meals \o Added(analysisResult, idx,
                                               Len(converted), currentDate)
                    /\ converted' =
                           converted \o [i \in 1..n |->
                                            <<analysisResult.run, i>>]
                    /\ showResult' = FALSE
                    /\ analysisResult' = Null
                    /\ storage' = saveMeals(storage, zone, currentDate, meals')
    /\ UNCHANGED <<editingMeal, showEditModal, currentDate, loading, zone,
                   runs>>
    /\ PageUnchanged

\* the X of the result view: onClose (page.tsx:723)
CloseResult ==
    /\ showResult /\ analysisResult # Null
    /\ showResult' = FALSE
    /\ analysisResult' = Null
    /\ lastClick' = "dismiss"
    /\ UNCHANGED <<meals, editingMeal, showEditModal, currentDate, storage,
                   loading, zone, runs, converted>>
    /\ PageUnchanged

\* prev.filter(m => m.id !== id)
WithoutId(ms, id) ==
    LET Kept(meal) == meal.id # id
    IN  SelectSeq(ms, Kept)

\* handleDeleteMeal (page.tsx:354-356), then the save effect
handleDeleteMeal ==
    /\ RegisterShown
    /\ \E i \in 1..Len(meals) : meals' = WithoutId(meals, meals[i].id)
    /\ storage' = saveMeals(storage, zone, currentDate, meals')
    /\ lastClick' = "other"
    /\ UNCHANGED <<analysisResult, showResult, editingMeal, showEditModal,
                   currentDate, loading, zone, runs, converted>>
    /\ PageUnchanged

\* handleEditMeal (page.tsx:358-361)
handleEditMeal ==
    /\ RegisterShown
    /\ \E i \in 1..Len(meals) : editingMeal' = meals[i]
    /\ showEditModal' = TRUE
    /\ lastClick' = "other"
    /\ UNCHANGED <<meals, analysisResult, showResult, currentDate, storage,
                   loading, zone, runs, converted>>
    /\ PageUnchanged

\* a number input of the edit modal changes (page.tsx:541-576):
\* setEditingMeal(prev => prev ? {...prev, field: Number(value)} : null)
EditField ==
    /\ showEditModal /\ editingMeal # Null
    /\ \E k \in EditFields, v \in EditValues :
           /\ editingMeal[k] # v
           /\ editingMeal' = [editingMeal EXCEPT ![k] = v]
    /\ lastClick' = "other"
    /\ UNCHANGED <<meals, analysisResult, showResult, showEditModal,
                   currentDate, storage, loading, zone, runs, converted>>
    /\ PageUnchanged

\* handleSaveEdit (page.tsx:363-374), then the save effect
handleSaveEdit ==
    /\ showEditModal /\ editingMeal # Null
    /\ LET updatedMeal ==
               [editingMeal EXCEPT
                   !.netCarbs = MathMax(Num(0), Minus(editingMeal.carbs,
                                                      editingMeal.fiber))]
       IN  meals' = [i \in 1..Len(meals) |->
                        IF meals[i].id = updatedMeal.id THEN updatedMeal
                        ELSE meals[i]]
    /\ editingMeal' = Null
    /\ showEditModal' = FALSE
    /\ storage' = saveMeals(storage, zone, currentDate, meals')
    /\ lastClick' = "other"
    /\ UNCHANGED <<analysisResult, showResult, currentDate, loading, zone,
                   runs, converted>>
    /\ PageUnchanged

\* Cancelar or the X of the edit modal (page.tsx:520, 594)
CancelEdit ==
    /\ showEditModal /\ editingMeal # Null
    /\ showEditModal' = FALSE
    /\ lastClick' = "other"
    /\ UNCHANGED <<meals, analysisResult, showResult, editingMeal,
                   currentDate, storage, loading, zone, runs, converted>>
    /\ PageUnchanged

\* navigateDate (page.tsx:187-192), then the save effect; the next button is
\* disabled on the day the page was opened (page.tsx:422)
navigateDate ==
    /\ RegisterShown
    /\ \E delta \in {0 - 1, 1} :
           /\ delta = 1 => currentDate.day # MaxDay
           /\ delta = 0 - 1 => currentDate.day > 1
           /\ currentDate' = SetDate(zone, currentDate, delta)
    /\ meals' = loadMeals(storage, zone, currentDate')
    /\ storage' = saveMeals(storage, zone, currentDate', meals')
    /\ lastClick' = "other"
    /\ UNCHANGED <<analysisResult, showResult, editingMeal, showEditModal,
                   loading, zone, runs, converted>>
    /\ PageUnchanged

PageNext ==
    \/ Mount
    \/ ResultArrives
    \/ handleAddFood
    \/ handleAddAllFoods
    \/ CloseResult
    \/ handleDeleteMeal
    \/ handleEditMeal
    \/ EditField
    \/ handleSaveEdit
    \/ CancelEdit
    \/ navigateDate

SpecPage == PageInit /\ [][PageNext]_vars

----------------------------------------------------------------------------
(* Claims about the meal register (SpecPage).                              *)

\* the last operation accepted the shown result or dismissed it
ResultConsumed == lastClick \in {"addOne", "addAll", "dismiss"}

\* C25: after the user accepts the result (add one item, or add all) or
\* dismisses it, analysisResult is null and the result view is hidden, and no
\* item of an analysis run is turned into a meal more than once.
C25_ResultDiscardedOnAccept ==
    /\ ResultConsumed => (analysisResult = Null /\ ~showResult)
    /\ \A i, j \in 1..Len(converted) : converted[i] = converted[j] => i = j

\* the sum of the numbers in field k of the meals
RECURSIVE FieldSum(_, _)
FieldSum(ms, k) ==
    IF ms = <<>> THEN 0
    ELSE FieldSum(Tail(ms), k) + (IF IsNumber(Head(ms)[k]) THEN Head(ms)[k].n ELSE 0)

\* C26: after any sequence of add-food, add-all, edit-and-save and delete
\* operations, every meal of the current day's list satisfies
\* netCarbs == max(0, carbs - fiber), and every displayed total is the sum of
\* that field over the meals of the list.
C26_MealsAndTotalsConsistent ==
    ~loading =>
        /\ \A i \in 1..Len(meals) : NetCarbsConsistent(meals[i])
        /\ \A k \in TotalFields :
               /\ \A i \in 1..Len(meals) : IsNumber(meals[i][k])
               /\ IsNumber(totals[k])
               /\ totals[k].n = FieldSum(meals, k)

\* the storage key of local day d, at the hour of the current date
KeyOfDay(d) == getStorageKey(zone, [day |-> d, hour |-> currentDate.hour])

\* C27: the meal list stored under a date's storage key contains only meals
\* that were added while that date was the current date, and the first save
\* (the one that follows the initial load) leaves the stored lists as they
\* were.
C27_MealsStoredUnderTheirDate ==
    /\ \A d \in 1..MaxDay :
           \A i \in 1..Len(storage[KeyOfDay(d)]) :
               LET meal == storage[KeyOfDay(d)][i]
               IN  meal.run > 0 => meal.day = d
    /\ lastClick = "mount" => storage = StoredBefore(zone, currentDate)

\* C28: a meal created from an analysis result carries the source tag of the
\* modality that produced the result: photo, voice or text.
C28_SourceIsModality ==
    \A i \in 1..Len(meals) :
        meals[i].run > 0 => meals[i].source = meals[i].modality

----------------------------------------------------------------------------
(* The credential and the daily targets: the API-key setup modal and the   *)
(* settings modal of KetoCounterApp (page.tsx:89-109, 376-384, 641-713).   *)

\* the defaults of loadSettings
DefaultSettings ==
    [dailyCalories |-> 2000, dailyCarbs |-> 20, dailyProtein |-> 100,
     dailyFat |-> 150, dailyFiber |-> 30]

\* localStorage holds no item under the key
NoItem == [t |-> "null"]

\* loadSettings: data ? JSON.parse(data) : defaults (the targets are numbers,
\* which JSON writes and reads back unchanged)
loadSettings(data) == IF data = NoItem THEN DefaultSettings ELSE data

\* loadApiKey: localStorage.getItem(API_KEY_KEY) || ''
loadApiKey(data) == data

\* the texts of the credential input: empty, two keys, and a text that is
\* not a key
OldKey == "gsk_old"
KeyTexts == {"", OldKey, "gsk_new", "typo"}
\* apiKey.startsWith('gsk_')
StartsWithGsk(text) == text \in {OldKey, "gsk_new"}

\* the targets whose inputs are typed into, and what Number(e.target.value)
\* gives for the typed text
TypedTargets == {"dailyCalories", "dailyCarbs"}
TypedValues == {0, 50}

\* the page after its mount effect: apiKey and settings are the loaded ones
SettingsInit ==
    /\ ReplyIdle
    /\ RouteIdle
    /\ ExtractIdle
    /\ ImageIdle
    /\ CameraIdle
    /\ VoiceIdle
    /\ AnalyzeIdle
    /\ QualityIdle
    /\ FlowIdle
    /\ UploadIdle
    /\ PageIdle
    /\ storedApiKey \in {"", OldKey}
    /\ storedSettings \in {NoItem, [DefaultSettings EXCEPT !.dailyCarbs = 50]}
    /\ apiKeyText = loadApiKey(storedApiKey)
    /\ settings = loadSettings(storedSettings)
    /\ showApiKeySetup = FALSE
    /\ showSettings = FALSE
    /\ atOpen = <<apiKeyText, settings>>
    /\ cancelled = FALSE

SettingsUnchanged ==
    UNCHANGED <<replyVars, routeVars, extractVars, imageVars, cameraVars,
                voiceVars, analyzeVars, qualityVars, flowVars, uploadVars,
                pageVars>>

NoModal == ~showApiKeySetup /\ ~showSettings

\* setShowApiKeySetup(true): the key button of the header, rendered while
\* apiKey is empty (page.tsx:401-405), and the analysis handlers when apiKey
\* is empty (215-218, 246-249, 297-300)
OpenApiKeySetup ==
    /\ NoModal
    /\ apiKeyText = ""
    /\ showApiKeySetup' = TRUE
    /\ atOpen' = <<apiKeyText, settings>>
    /\ cancelled' = FALSE
    /\ UNCHANGED <<apiKeyText, settings, storedApiKey, storedSettings,
                   showSettings>>
    /\ SettingsUnchanged

\* setShowSettings(true): the settings button of the header (page.tsx:412)
OpenSettings ==
    /\ NoModal
    /\ showSettings' = TRUE
    /\ atOpen' = <<apiKeyText, settings>>
    /\ cancelled' = FALSE
    /\ UNCHANGED <<apiKeyText, settings, storedApiKey, storedSettings,
                   showApiKeySetup>>
    /\ SettingsUnchanged

\* the credential input of either modal changes: onChange={e =>
\* setApiKey(e.target.value)} (page.tsx:648, 685)
TypeApiKey ==
    /\ showApiKeySetup \/ showSettings
    /\ \E text \in KeyTexts : text # apiKeyText /\ apiKeyText' = text
    /\ cancelled' = FALSE
    /\ UNCHANGED <<settings, storedApiKey, storedSettings, showApiKeySetup,
                   showSettings, atOpen>>
    /\ SettingsUnchanged

\* a target input of the settings modal changes: setSettings(s => ({...s,
\* field: Number(e.target.value)})) (page.tsx:691-707)
TypeTarget ==
    /\ showSettings
    /\ \E k \in TypedTargets, v \in TypedValues :
           /\ settings[k] # v
           /\ settings' = [settings EXCEPT ![k] = v]
    /\ cancelled' = FALSE
    /\ UNCHANGED <<apiKeyText, storedApiKey, storedSettings, showApiKeySetup,
                   showSettings, atOpen>>
    /\ SettingsUnchanged

\* Guardar of the setup modal, disabled unless the text starts with gsk_
\* (page.tsx:653-658)
SaveApiKeySetup ==
    /\ showApiKeySetup
    /\ StartsWithGsk(apiKeyText)
    /\ storedApiKey' = apiKeyText
    /\ showApiKeySetup' = FALSE
    /\ cancelled' = FALSE
    /\ UNCHANGED <<apiKeyText, settings, storedSettings, showSettings, atOpen>>
    /\ SettingsUnchanged

\* Cancelar of the setup modal (page.tsx:663)
CancelApiKeySetup ==
    /\ showApiKeySetup
    /\ showApiKeySetup' = FALSE
    /\ cancelled' = TRUE
    /\ UNCHANGED <<apiKeyText, settings, storedApiKey, storedSettings,
                   showSettings, atOpen>>
    /\ SettingsUnchanged

\* Guardar of the settings modal: handleSaveSettings(settings, apiKey)
\* (page.tsx:376-384, 710)
handleSaveSettings ==
    /\ showSettings
    /\ storedSettings' = settings
    /\ storedApiKey' = apiKeyText
    /\ showSettings' = FALSE
    /\ cancelled' = FALSE
    /\ UNCHANGED <<apiKeyText, settings, showApiKeySetup, atOpen>>
    /\ SettingsUnchanged

\* Cancelar of the settings modal (page.tsx:711)
CancelSettings ==
    /\ showSettings
    /\ showSettings' = FALSE
    /\ cancelled' = TRUE
    /\ UNCHANGED <<apiKeyText, settings, storedApiKey, storedSettings,
                   showApiKeySetup, atOpen>>
    /\ SettingsUnchanged

SettingsNext ==
    \/ OpenApiKeySetup
    \/ OpenSettings
    \/ TypeApiKey
    \/ TypeTarget
    \/ SaveApiKeySetup
    \/ CancelApiKeySetup
    \/ handleSaveSettings
    \/ CancelSettings

SpecSettings == SettingsInit /\ [][SettingsNext]_vars

----------------------------------------------------------------------------
(* Claims about the credential and the daily targets (SpecSettings).       *)

\* C29: cancelling the API-key setup modal or the settings modal leaves the
\* credential and the daily targets unchanged: after Cancel the in-memory
\* apiKey and settings equal their values from before the modal was opened
\* and equal the persisted values.
C29_CancelLeavesCredentialAndTargets ==
    cancelled =>
        /\ <<apiKeyText, settings>> = atOpen
        /\ apiKeyText = loadApiKey(storedApiKey)
        /\ settings = loadSettings(storedSettings)

====
